---------------------------- MODULE Spec2Model ----------------------------
(***************************************************************************)
(* Logistics-tracking backend (tse0414/bla): the parcel status / tracking  *)
(* event state machine of its rewritten versions.                          *)
(*                                                                         *)
(*   P9  src/專案9/app.py           role-gated set_parcel_status with the  *)
(*                                  abnormal-state lock; its store module  *)
(*                                  db_operations is not in the source     *)
(*                                  tree                                   *)
(*   P8  src/專案8/app.py,          the same API over an Excel workbook    *)
(*       src/專案8/excel_db.py      that every store call loads and saves  *)
(*   LS  src/Logistics_system.py    PackageManager / TrackingManager /     *)
(*                                  BillingManager                         *)
(*   MB  src/my_backed2/src/app.py  PackageManager.calculate_cost, the     *)
(*                                  routes and their role gate             *)
(*                                                                         *)
(* String literals of the source are Chinese; a TLA+ string is ASCII, so   *)
(* each literal is written as an English word, one word per literal:       *)
(*   created    建立包裹      received   已收件      stored     進入倉儲   *)
(*   loaded     已裝車        in_transit 配送中      delivered  已送達     *)
(*   delayed    延誤          lost       遺失        damaged    損毀       *)
(*   returned   退回          processing 處理中      paid       付款完成   *)
(* and the values of PackageStatus in Logistics_system.py:                 *)
(*   registered 已建立        picked_up  已取件      moving     運輸中     *)
(*   at_center  抵達物流中心  being_sorted 分揀中    on_vehicle 外送中     *)
(*   delivered  已送達        abnormal   異常                              *)
(* and the payment states of BillingManager.process_payment:              *)
(*   already_paid 已付款   cash_on_delivery 貨到付款   awaiting_payment 待付款 *)
(***************************************************************************)
EXTENDS Integers, Sequences, FiniteSets

VARIABLES
    p9Parcels,   \* P9: rows of the parcel table, in insertion order
    p9Events,    \* P9: rows of the tracking-event table, in insertion order
    p9Resp,      \* P9: the last request served and its response
    p9Req,       \* P9 (concurrent): the request each in-flight handler serves
    p9Pc,        \* P9 (concurrent): each handler's position in set_parcel_status
    p9Start,     \* P9 (concurrent): the tables when the handlers were dispatched
    p8File,      \* P8: logistics.xlsx, its Parcels and TrackingEvents sheets
    p8Resp,      \* P8: the last request served and its response
    p8Now,       \* P8: the clock, in whole seconds
    p8Req,       \* P8 (concurrent): the request each in-flight handler serves
    p8Pc,        \* P8 (concurrent): each handler's position in set_parcel_status
    p8Wb,        \* P8 (concurrent): the workbook each handler holds in memory
    lsPackages,  \* LS: PackageManager.packages
    lsEvents,    \* LS: TrackingManager.tracking_events
    lsRet,       \* LS: the last call made, its status or marker argument and
                 \*     what it returned
    lsFile,      \* LS: data_packages.json, what save_data wrote last
    lsCustomers, \* LS: CustomerManager.customers
    lsBilling,   \* LS: BillingManager.billing_records
    mbPackages,  \* MB: PackageManager.packages
    mbRules,     \* MB: PackageManager.pricing_rules
    mbRet,       \* MB: the last call made and what it returned
    mbCustomers, \* MB: the keys of CustomerManager.customers
    mbInvoices,  \* MB: BillingManager.invoices
    mbEvents,    \* MB: TrackingManager.tracking_events
    mbResp       \* MB: the last request served by a route and its response

p9vars == <<p9Parcels, p9Events, p9Resp>>
p9cvars == <<p9Req, p9Pc, p9Start>>
p8vars == <<p8File, p8Resp, p8Now>>
p8cvars == <<p8Req, p8Pc, p8Wb>>
lsbillvars == <<lsCustomers, lsBilling>>
lsvars == <<lsPackages, lsEvents, lsRet, lsFile, lsbillvars>>
mbapivars == <<mbCustomers, mbInvoices, mbEvents, mbResp>>
mbvars == <<mbPackages, mbRules, mbRet, mbapivars>>
vars == <<p9vars, p9cvars, p8vars, p8cvars, lsvars, mbvars>>

(***************************************************************************)
(* Bounds of the model.                                                    *)
(***************************************************************************)
MaxEvents == 3        \* rows the tracking-event table may hold
MaxClock == 1         \* seconds the clock may advance during a run
MaxHistory == 4       \* events TrackingManager may hold, over all packages
MaxInvoices == 2      \* invoices BillingManager may hold

TRK == {"T1", "T2"}   \* tracking numbers a request may name
Issued == {"T1"}      \* tracking numbers create_parcel issues during a run
None == "None"        \* Python's None (a missing JSON field)

(***************************************************************************)
(* Values shared by the P8 and P9 APIs.                                    *)
(***************************************************************************)
\* init_default_accounts: the roles an account can carry.
Roles == {"staff", "admin", "driver", "warehouse", "customer"}

\* The status literals the two handlers name, and one they do not.
StatusWords == {"created", "received", "stored", "loaded", "in_transit",
                "delivered", "delayed", "lost", "damaged", "returned",
                "processing", "archived"}

\* Values of the "status" field of a request body: a status word, a word
\* padded with blanks, a blank string, or no field.
RawStatus == StatusWords \cup {" delivered ", " ", None}

\* str.strip() on the values of RawStatus.
Strip(s) ==
    CASE s = " delivered " -> "delivered"
      [] s = " "           -> ""
      [] OTHER             -> s

\* Python's `a or b` on the field values used here: None and "" are falsy.
Or(a, b) == IF a = None \/ a = "" THEN b ELSE a

\* Request bodies: tracking_number / tracking_no and status.
TrackingField == TRK \cup {None}
StatusBodies ==
    [tracking_number : TrackingField, tracking_no : {None}, status : RawStatus]
    \cup [tracking_number : {None}, tracking_no : {"T1"}, status : RawStatus]

\* tracking = data.get("tracking_number") or data.get("tracking_no")
BodyTracking(data) == Or(data.tracking_number, data.tracking_no)

\* new_status = (data.get("status") or "").strip()
BodyStatus(data) == Strip(Or(data.status, ""))

\* `not x` for the resolved tracking / status values.
Falsy(x) == x = None \/ x = ""


\* First row of `rows` whose tracking number is t; 0 when there is none
\* (next((p for p in parcels if p["tracking_number"] == tracking), None)).
FindRow(rows, t) ==
    IF \E i \in 1..Len(rows) : rows[i].tracking_number = t
    THEN CHOOSE i \in 1..Len(rows) :
            /\ rows[i].tracking_number = t
            /\ \A j \in 1..(i - 1) : rows[j].tracking_number # t
    ELSE 0

\* HTTP status of each way a request can end.
HttpCode(error) ==
    CASE error = "none"                -> 200
      [] error = "created"             -> 201
      [] error = "incomplete"          -> 400
      [] error = "locked"              -> 400
      [] error = "customer_forbidden"  -> 403
      [] error = "driver_forbidden"    -> 403
      [] error = "warehouse_forbidden" -> 403
      [] error = "not_found"           -> 404
      [] error = "update_failed"       -> 404
      [] OTHER                         -> 500

NoResp == [op |-> "none", role |-> None, tracking |-> None, status |-> None,
           code |-> 0, error |-> "none"]

(***************************************************************************)
(* P9: src/專案9/app.py over db_operations.                                *)
(***************************************************************************)
\* db_operations.read_parcels: the rows of the parcel table.
P9ReadParcels(rows) == rows

\* db_operations.append_parcel: tracking numbers are the table's key, a row
\* whose key is taken is refused.
P9AppendParcelOk(rows, record) == FindRow(rows, record.tracking_number) = 0

P9AppendParcel(rows, record) ==
    IF P9AppendParcelOk(rows, record) THEN Append(rows, record) ELSE rows

\* db_operations.update_parcel_status: whether a row was updated.
P9UpdateParcelStatusOk(rows, tracking, status) == FindRow(rows, tracking) # 0

\* db_operations.update_parcel_status: the table afterwards.
P9UpdateParcelStatus(rows, tracking, status) ==
    IF FindRow(rows, tracking) = 0 THEN rows
    ELSE [rows EXCEPT ![FindRow(rows, tracking)].status = status]

\* db_operations.append_tracking_event
P9AppendTrackingEvent(events, event) == Append(events, event)

ABNORMAL_STATUSES == {"lost", "damaged", "returned"}

\* The statuses the abnormal-state lock lets through for every role.
LockExempt == {"processing", "returned"}

\* allowed, for role == "driver"
DriverAllowed == {"loaded", "in_transit", "delivered", "delayed", "lost", "damaged"}

\* allowed, for role == "warehouse"
WarehouseAllowed == {"received", "stored", "loaded", "returned", "damaged"}

\* set_parcel_status without the driver allow-list.
P9StatusError_NoDriverGate(role, tracking, new_status, parcels) ==
    IF role = "customer" THEN "customer_forbidden"
    ELSE IF Falsy(tracking) \/ Falsy(new_status) THEN "incomplete"
    ELSE IF FindRow(parcels, tracking) = 0 THEN "not_found"
    ELSE LET current_status == parcels[FindRow(parcels, tracking)].status IN
         IF /\ current_status \in ABNORMAL_STATUSES
            /\ new_status \notin LockExempt
            /\ role # "admin"
         THEN "locked"
         ELSE IF role = "warehouse" /\ new_status \notin WarehouseAllowed
         THEN "warehouse_forbidden"
         ELSE "none"

\* set_parcel_status without the abnormal-state lock.
P9StatusError_NoLock(role, tracking, new_status, parcels) ==
    IF role = "customer" THEN "customer_forbidden"
    ELSE IF Falsy(tracking) \/ Falsy(new_status) THEN "incomplete"
    ELSE IF FindRow(parcels, tracking) = 0 THEN "not_found"
    ELSE IF role = "driver" /\ new_status \notin DriverAllowed
         THEN "driver_forbidden"
         ELSE IF role = "warehouse" /\ new_status \notin WarehouseAllowed
         THEN "warehouse_forbidden"
         ELSE "none"

\* set_parcel_status without the customer check.
P9StatusError_NoCustomerCheck(role, tracking, new_status, parcels) ==
    IF Falsy(tracking) \/ Falsy(new_status) THEN "incomplete"
    ELSE IF FindRow(parcels, tracking) = 0 THEN "not_found"
    ELSE LET current_status == parcels[FindRow(parcels, tracking)].status IN
         IF /\ current_status \in ABNORMAL_STATUSES
            /\ new_status \notin LockExempt
            /\ role # "admin"
         THEN "locked"
         ELSE IF role = "driver" /\ new_status \notin DriverAllowed
         THEN "driver_forbidden"
         ELSE IF role = "warehouse" /\ new_status \notin WarehouseAllowed
         THEN "warehouse_forbidden"
         ELSE "none"

\* set_parcel_status with the lock applied to the admin role too.
P9StatusError_AdminLocked(role, tracking, new_status, parcels) ==
    IF role = "customer" THEN "customer_forbidden"
    ELSE IF Falsy(tracking) \/ Falsy(new_status) THEN "incomplete"
    ELSE IF FindRow(parcels, tracking) = 0 THEN "not_found"
    ELSE LET current_status == parcels[FindRow(parcels, tracking)].status IN
         IF /\ current_status \in ABNORMAL_STATUSES
            /\ new_status \notin LockExempt
         THEN "locked"
         ELSE IF role = "driver" /\ new_status \notin DriverAllowed
         THEN "driver_forbidden"
         ELSE IF role = "warehouse" /\ new_status \notin WarehouseAllowed
         THEN "warehouse_forbidden"
         ELSE "none"

\* set_parcel_status, lines 324-360: the checks made on the rows read by
\* read_parcels, in the order the handler makes them; "none" when all pass.
P9StatusError(role, tracking, new_status, parcels) ==
    IF role = "customer" THEN "customer_forbidden"
    ELSE IF Falsy(tracking) \/ Falsy(new_status) THEN "incomplete"
    ELSE IF FindRow(parcels, tracking) = 0 THEN "not_found"
    ELSE LET current_status == parcels[FindRow(parcels, tracking)].status IN
         IF /\ current_status \in ABNORMAL_STATUSES
            /\ new_status \notin LockExempt
            /\ role # "admin"
         THEN "locked"
         ELSE IF role = "driver" /\ new_status \notin DriverAllowed
         THEN "driver_forbidden"
         ELSE IF role = "warehouse" /\ new_status \notin WarehouseAllowed
         THEN "warehouse_forbidden"
         ELSE "none"

\* The tracking event set_parcel_status appends.
StatusEvent(tracking, new_status) ==
    [tracking_number |-> tracking, event_type |-> new_status]

\* set_parcel_status writing the status before it makes its checks.
P9ServeStatus_WriteFirst(role, data, parcels, events) ==
    LET tracking == BodyTracking(data)
        new_status == BodyStatus(data)
        error == P9StatusError(role, tracking, new_status, P9ReadParcels(parcels))
        resp == [op |-> "set_parcel_status", role |-> role, tracking |-> tracking,
                 status |-> new_status, code |-> HttpCode(error), error |-> error]
    IN  [parcels |-> P9UpdateParcelStatus(parcels, tracking, new_status),
         events |-> IF error = "none"
                    THEN P9AppendTrackingEvent(events, StatusEvent(tracking, new_status))
                    ELSE events,
         resp |-> resp]

\* set_parcel_status served in one piece: the tables and the response after
\* the request (role from the token, data the JSON body).
P9ServeStatus(role, data, parcels, events) ==
    LET tracking == BodyTracking(data)
        new_status == BodyStatus(data)
        error == P9StatusError(role, tracking, new_status, P9ReadParcels(parcels))
        failed == [op |-> "set_parcel_status", role |-> role, tracking |-> tracking,
                   status |-> new_status, code |-> HttpCode(error), error |-> error]
    IN  IF error # "none"
        THEN [parcels |-> parcels, events |-> events, resp |-> failed]
        ELSE IF ~P9UpdateParcelStatusOk(parcels, tracking, new_status)
        THEN [parcels |-> parcels, events |-> events,
              resp |-> [failed EXCEPT !.code = HttpCode("update_failed"),
                                      !.error = "update_failed"]]
        ELSE [parcels |-> P9UpdateParcelStatus(parcels, tracking, new_status),
              events |-> P9AppendTrackingEvent(events, StatusEvent(tracking, new_status)),
              resp |-> failed]

\* POST /api/parcels/status
P9SetParcelStatus(role, data) ==
    /\ Len(p9Events) < MaxEvents
    /\ LET after == P9ServeStatus(role, data, p9Parcels, p9Events) IN
        /\ p9Parcels' = after.parcels
        /\ p9Events' = after.events
        /\ p9Resp' = after.resp
    /\ UNCHANGED <<mbvars, p9cvars, p8vars, p8cvars, lsvars>>

\* Request bodies of create_parcel: weight, volume and the recipient's name,
\* as the JSON text of each field.
WeightField == {None, "abc", "0", "2"}
VolumeField == {None, "abc", "-1", "5"}
CreateBodies == [weight : WeightField, volume : VolumeField,
                 recipient_name : {None, "R"}]

\* float(x) raises TypeError on None and ValueError on text that is no number.
FloatRaises(x) == x \in {None, "abc"}

\* float(x) on the field values used here.
Float(x) ==
    CASE x = "-1" -> -1
      [] x = "0"  -> 0
      [] x = "2"  -> 2
      [] x = "5"  -> 5

\* create_parcel, lines 204-222: the checks on the body. A volume that is no
\* number is let through (except ValueError: pass).
P9CreateError(data) ==
    IF FloatRaises(data.weight) THEN "incomplete"
    ELSE IF Float(data.weight) <= 0 THEN "incomplete"
    ELSE IF /\ ~Falsy(data.volume)
            /\ ~FloatRaises(data.volume)
            /\ Float(data.volume) < 0
    THEN "incomplete"
    ELSE IF Falsy(data.recipient_name) THEN "incomplete"
    ELSE "created"

\* POST /api/parcels: tracking is the number the clock gives this request.
P9CreateParcel(data, tracking) ==
    /\ Len(p9Events) < MaxEvents
    /\ LET record == [tracking_number |-> tracking, status |-> "created"]
           error == IF P9CreateError(data) # "created" THEN P9CreateError(data)
                    ELSE IF ~P9AppendParcelOk(p9Parcels, record) THEN "store_error"
                    ELSE "created"
       IN /\ p9Parcels' = IF error = "created"
                          THEN P9AppendParcel(p9Parcels, record) ELSE p9Parcels
          /\ p9Events' = IF error = "created"
                         THEN P9AppendTrackingEvent(p9Events, StatusEvent(tracking, "created"))
                         ELSE p9Events
          /\ p9Resp' = [op |-> "create_parcel", role |-> None, tracking |-> tracking,
                        status |-> "created", code |-> HttpCode(error),
                        error |-> error]
    /\ UNCHANGED <<mbvars, p9cvars, p8vars, p8cvars, lsvars>>

(***************************************************************************)
(* P8: src/專案8/app.py over src/專案8/excel_db.py. Every store function   *)
(* loads the whole workbook, changes one sheet and saves the whole         *)
(* workbook. A workbook is [Parcels, TrackingEvents], the sheets' rows.    *)
(***************************************************************************)
\* append_parcel: one more row, whatever tracking numbers are on the sheet.
P8AppendParcel(wb, record) == [wb EXCEPT !.Parcels = Append(@, record)]

\* update_parcel_amount: the first row with the tracking number, if any.
P8UpdateParcelAmount(wb, tracking_number, amount) ==
    IF FindRow(wb.Parcels, tracking_number) = 0 THEN wb
    ELSE [wb EXCEPT !.Parcels[FindRow(wb.Parcels, tracking_number)].amount = amount]

\* update_parcel_status that reports a row updated whatever it found.
P8UpdateParcelStatusOk_Always(wb, tracking_number, status) == TRUE

\* update_parcel_status: updated, whether a row has the tracking number.
P8UpdateParcelStatusOk(wb, tracking_number, status) ==
    FindRow(wb.Parcels, tracking_number) # 0

\* update_parcel_status: the first row with the tracking number, if any.
P8UpdateParcelStatus(wb, tracking_number, status) ==
    IF FindRow(wb.Parcels, tracking_number) = 0 THEN wb
    ELSE [wb EXCEPT !.Parcels[FindRow(wb.Parcels, tracking_number)].status = status]

\* append_tracking_event that keeps one row per parcel: the row of the
\* event's tracking number is replaced when the sheet has one.
P8AppendTrackingEvent_Upsert(wb, event) ==
    IF FindRow(wb.TrackingEvents, event.tracking_number) = 0
    THEN [wb EXCEPT !.TrackingEvents = Append(@, event)]
    ELSE [wb EXCEPT !.TrackingEvents[FindRow(wb.TrackingEvents,
                                             event.tracking_number)] = event]

\* append_tracking_event
P8AppendTrackingEvent(wb, event) == [wb EXCEPT !.TrackingEvents = Append(@, event)]

\* The row a handler hands to append_tracking_event; timestamp is
\* datetime.now().strftime("%Y-%m-%d %H:%M:%S"), the clock in whole seconds.
P8Event(tracking, event_type, timestamp) ==
    [tracking_number |-> tracking, event_type |-> event_type,
     timestamp |-> timestamp]

\* float(amount) as the sheet stores it.
AmountField == {None, "abc", "5"}
FloatText(x) == CASE x = "5" -> "5.0"

\* create_parcel: the body's recipient; the sender falls back to the token's
\* username, which is never missing.
P8CreateBodies == [recipient_name : {None, "R"}]

P8CreateError(data) ==
    IF Falsy(data.recipient_name) THEN "incomplete" ELSE "created"

\* POST /api/parcels: tracking is TRK-<date>-<last digits of the microsecond>,
\* whatever numbers are already stored.
P8CreateParcel(data, tracking) ==
    /\ Len(p8File.TrackingEvents) < MaxEvents
    /\ LET error == P8CreateError(data)
           record == [tracking_number |-> tracking, status |-> "created",
                      amount |-> None]
       IN /\ p8File' = IF error = "created"
                       THEN P8AppendTrackingEvent(P8AppendParcel(p8File, record),
                                                  P8Event(tracking, "created", p8Now))
                       ELSE p8File
          /\ p8Resp' = [op |-> "create_parcel", role |-> None, tracking |-> tracking,
                        status |-> "created", code |-> HttpCode(error),
                        error |-> error]
    /\ UNCHANGED <<p8Now, mbvars, p9vars, p9cvars, p8cvars, lsvars>>

\* Request bodies of set_parcel_amount.
AmountBodies ==
    [tracking_number : TrackingField, tracking_no : {None}, amount : AmountField]

\* set_parcel_amount, lines 299-307: the checks on the body.
P8AmountError(data) ==
    IF Falsy(BodyTracking(data)) THEN "incomplete"
    ELSE IF data.amount = None THEN "incomplete"
    ELSE IF FloatRaises(data.amount) THEN "incomplete"
    ELSE "none"

\* POST /api/parcels/amount: the amount is written and a paid event appended.
P8SetParcelAmount(data) ==
    /\ Len(p8File.TrackingEvents) < MaxEvents
    /\ LET tracking == BodyTracking(data)
           error == P8AmountError(data)
       IN /\ p8File' = IF error = "none"
                       THEN P8AppendTrackingEvent(
                               P8UpdateParcelAmount(p8File, tracking, FloatText(data.amount)),
                               P8Event(tracking, "paid", p8Now))
                       ELSE p8File
          /\ p8Resp' = [op |-> "set_parcel_amount", role |-> None, tracking |-> tracking,
                        status |-> None, code |-> HttpCode(error), error |-> error]
    /\ UNCHANGED <<p8Now, mbvars, p9vars, p9cvars, p8cvars, lsvars>>

\* set_parcel_status, lines 338-355: the checks made before the store is called.
P8StatusError(role, tracking, status) ==
    IF role = "customer" THEN "customer_forbidden"
    ELSE IF Falsy(tracking) THEN "incomplete"
    ELSE IF Falsy(status) THEN "incomplete"
    ELSE "none"

\* set_parcel_status served in one piece: the workbook and the response.
P8ServeStatus(role, data, wb, timestamp) ==
    LET tracking == BodyTracking(data)
        status == BodyStatus(data)
        error == P8StatusError(role, tracking, status)
        resp == [op |-> "set_parcel_status", role |-> role, tracking |-> tracking,
                 status |-> status, code |-> HttpCode(error), error |-> error]
    IN  IF error # "none" THEN [file |-> wb, resp |-> resp]
        ELSE IF ~P8UpdateParcelStatusOk(wb, tracking, status)
        THEN [file |-> P8UpdateParcelStatus(wb, tracking, status),
              resp |-> [resp EXCEPT !.code = HttpCode("not_found"),
                                    !.error = "not_found"]]
        ELSE [file |-> P8AppendTrackingEvent(
                          P8UpdateParcelStatus(wb, tracking, status),
                          P8Event(tracking, status, timestamp)),
              resp |-> resp]

\* POST /api/parcels/status
P8SetParcelStatus(role, data) ==
    /\ Len(p8File.TrackingEvents) < MaxEvents
    /\ p8File' = P8ServeStatus(role, data, p8File, p8Now).file
    /\ p8Resp' = P8ServeStatus(role, data, p8File, p8Now).resp
    /\ UNCHANGED <<p8Now, mbvars, p9vars, p9cvars, p8cvars, lsvars>>

\* A second passes between two requests.
P8Tick ==
    /\ p8Now < MaxClock
    /\ p8Now' = p8Now + 1
    /\ UNCHANGED <<p8File, p8Resp, mbvars, p9vars, p9cvars, p8cvars, lsvars>>

\* The rows of a sheet with the tracking number, in sheet order.
RECURSIVE RowsOf(_, _)
RowsOf(rows, tracking_number) ==
    IF rows = <<>> THEN <<>>
    ELSE IF Head(rows).tracking_number = tracking_number
         THEN <<Head(rows)>> \o RowsOf(Tail(rows), tracking_number)
         ELSE RowsOf(Tail(rows), tracking_number)

\* One row put into a list that is sorted by timestamp, latest first, behind
\* the rows that are not older than it.
RECURSIVE InsertByTimestamp(_, _)
InsertByTimestamp(sorted, row) ==
    IF sorted = <<>> THEN <<row>>
    ELSE IF Head(sorted).timestamp >= row.timestamp
         THEN <<Head(sorted)>> \o InsertByTimestamp(Tail(sorted), row)
         ELSE <<row>> \o sorted

\* events.sort(key=timestamp, reverse=True): a stable sort, rows with equal
\* timestamps keep the order they had.
RECURSIVE SortByTimestampReverse(_)
SortByTimestampReverse(events) ==
    IF events = <<>> THEN <<>>
    ELSE InsertByTimestamp(
            SortByTimestampReverse(SubSeq(events, 1, Len(events) - 1)),
            events[Len(events)])

\* read_tracking_events
ReadTrackingEvents(wb, tracking_number) ==
    SortByTimestampReverse(RowsOf(wb.TrackingEvents, tracking_number))

(***************************************************************************)
(* LS: src/Logistics_system.py, PackageManager and TrackingManager.        *)
(***************************************************************************)
\* class PackageStatus(Enum): its members
PackageStatus == {"CREATED", "PICKUP", "IN_TRANSIT", "AT_FACILITY", "SORTING",
                  "OUT_FOR_DELIVERY", "DELIVERED", "EXCEPTION"}

\* PackageStatus.<member>.value
PackageStatusValue(member) ==
    CASE member = "CREATED"          -> "registered"
      [] member = "PICKUP"           -> "picked_up"
      [] member = "IN_TRANSIT"       -> "moving"
      [] member = "AT_FACILITY"      -> "at_center"
      [] member = "SORTING"          -> "being_sorted"
      [] member = "OUT_FOR_DELIVERY" -> "on_vehicle"
      [] member = "DELIVERED"        -> "delivered"
      [] member = "EXCEPTION"        -> "abnormal"

\* Package.__init__: the fields of a new package that tracking, the cost
\* calculation, billing and to_dict read. Every package is created for the
\* sender C1.
NewPackage ==
    [status |-> "CREATED", weight |-> 0, length |-> 0, width |-> 0, height |-> 0,
     service_type |-> "STANDARD", special_markers |-> <<>>, sender_id |-> "C1"]

\* PackageManager.packages is a dict: a function on the tracking numbers
\* stored. get_package returns None for a number that is not stored ...
HasPackage(packages, tracking_number) == tracking_number \in DOMAIN packages

\* ... and the package otherwise.
GetPackage(packages, tracking_number) == packages[tracking_number]

\* d[k] = v on a dict.
DictSet(d, k, v) == [x \in DOMAIN d \cup {k} |-> IF x = k THEN v ELSE d[x]]

\* d.get(k, []) on a dict of lists.
DictGetList(d, k) == IF k \in DOMAIN d THEN d[k] ELSE <<>>

\* ServiceType.<member>.value
ServiceTypeValue(member) ==
    CASE member = "STANDARD"      -> "standard"
      [] member = "EXPRESS"       -> "express"
      [] member = "OVERNIGHT"     -> "overnight"
      [] member = "INTERNATIONAL" -> "international"

\* Package.to_dict: the fields written to the file, the two enums as their
\* values (the recipient, the description and created_at are left out here).
ToDict(package) ==
    [sender_id |-> package.sender_id,
     weight |-> package.weight,
     status |-> PackageStatusValue(package.status),
     service_type |-> ServiceTypeValue(package.service_type)]

\* PackageManager.save_data: the to_dict of every package, under its key.
SaveData(packages) == [t \in DOMAIN packages |-> ToDict(packages[t])]

\* PackageManager.load_data: for every item of the file a new Package with
\* the item's sender, weight and status (PackageStatus(item['status'])).
LoadData(file) ==
    [t \in DOMAIN file |->
        [NewPackage EXCEPT
            !.sender_id = file[t].sender_id,
            !.weight = file[t].weight,
            !.status = CHOOSE m \in PackageStatus :
                          PackageStatusValue(m) = file[t].status]]

\* PackageManager.create_package: tracking_number is the new package's
\* number, TRK<date><8 hex digits of a uuid4>; the package is stored under
\* it, over whatever the dict held there, and the file is saved.
LSCreatePackage(tracking_number) ==
    /\ lsPackages' = DictSet(lsPackages, tracking_number, NewPackage)
    /\ lsFile' = SaveData(lsPackages')
    /\ lsRet' = [op |-> "create_package", tracking |-> tracking_number, ok |-> TRUE,
                 cost |-> 0, arg |-> None]
    /\ UNCHANGED <<mbvars, lsEvents, lsbillvars, p9vars, p9cvars, p8vars, p8cvars>>

\* TrackingEvent.__init__
TrackingEvent(status, location, notes) ==
    [status |-> status, location |-> location, notes |-> notes]

\* record_event that appends the event and leaves the package as it was.
RecordEvent_StatusNotSet(packages, events, tracking_number, status, location, notes) ==
    IF ~HasPackage(packages, tracking_number)
    THEN [packages |-> packages, events |-> events, ok |-> FALSE]
    ELSE [packages |-> packages,
          events |-> DictSet(events, tracking_number,
                             Append(DictGetList(events, tracking_number),
                                    TrackingEvent(status, location, notes))),
          ok |-> TRUE]

\* TrackingManager.record_event: the packages, the events and the value
\* returned.
RecordEvent(packages, events, tracking_number, status, location, notes) ==
    IF ~HasPackage(packages, tracking_number)
    THEN [packages |-> packages, events |-> events, ok |-> FALSE]
    ELSE [packages |-> [packages EXCEPT ![tracking_number].status = status],
          events |-> DictSet(events, tracking_number,
                             Append(DictGetList(events, tracking_number),
                                    TrackingEvent(status, location, notes))),
          ok |-> TRUE]

\* The events TrackingManager holds, over all packages.
LSEventCount ==
    Len(DictGetList(lsEvents, "T1")) + Len(DictGetList(lsEvents, "T2"))

\* A call of record_event, directly or through start_tracking or
\* record_delivery (op names the method called).
LSCall(op, tracking_number, status, location, notes) ==
    /\ LSEventCount < MaxHistory
    /\ LET after == RecordEvent(lsPackages, lsEvents, tracking_number, status,
                                location, notes)
       IN /\ lsPackages' = after.packages
          /\ lsEvents' = after.events
          /\ lsRet' = [op |-> op, tracking |-> tracking_number, ok |-> after.ok,
                       cost |-> 0, arg |-> status]
    /\ UNCHANGED <<lsFile, lsbillvars, mbvars, p9vars, p9cvars, p8vars, p8cvars>>

Locations == {"Taipei"}
Signatures == {"", "Wang"}

\* TrackingManager.record_event called with the default notes
LSRecordEvent(tracking_number, status, location) ==
    LSCall("record_event", tracking_number, status, location, "")

\* TrackingManager.start_tracking
LSStartTracking(tracking_number, location) ==
    LSCall("start_tracking", tracking_number, "PICKUP", location, "picked up")

\* record_delivery: notes, with the signer when a signature is given.
DeliveryNotes(signature) ==
    CASE signature = ""     -> "delivered"
      [] signature = "Wang" -> "delivered, signed by: Wang"

\* TrackingManager.record_delivery
LSRecordDelivery(tracking_number, location, signature) ==
    LSCall("record_delivery", tracking_number, "DELIVERED", location,
           DeliveryNotes(signature))

\* TrackingManager.get_current_status returns None when the tracking number
\* has no events (no entry, or an empty list) ...
HasCurrentStatus(events, tracking_number) ==
    DictGetList(events, tracking_number) # <<>>

\* ... and the latest event's fields otherwise.
GetCurrentStatus(events, tracking_number) ==
    LET latest_event == events[tracking_number][Len(events[tracking_number])] IN
    [tracking_number |-> tracking_number,
     status |-> PackageStatusValue(latest_event.status),
     location |-> latest_event.location,
     notes |-> latest_event.notes]

(***************************************************************************)
(* Numbers. Weights (kg), distances (km) and amounts of money are floats   *)
(* in the source; here each is an integer count of 1/Unit, so 2.5 kg is    *)
(* 25000. Lengths are whole centimetres.                                   *)
(***************************************************************************)
Unit == 10000

\* max(a, b)
Max(a, b) == IF a >= b THEN a ELSE b

\* round(x, 2) on a non-negative amount: to the nearest hundredth, a tie to
\* the even hundredth.
Round2(x) ==
    LET q == x \div (Unit \div 100)
        r == x % (Unit \div 100)
        half == (Unit \div 100) \div 2
    IN  IF r < half THEN q * (Unit \div 100)
        ELSE IF r > half THEN (q + 1) * (Unit \div 100)
        ELSE IF q % 2 = 0 THEN q * (Unit \div 100)
        ELSE (q + 1) * (Unit \div 100)

\* class SpecialMarker(Enum): the members the calls below use.
SpecialMarker == {"FRAGILE", "DANGEROUS"}

\* Package.add_special_marker that appends without looking at the list.
AddSpecialMarker_Always(special_markers, marker) == Append(special_markers, marker)

\* Package.add_special_marker: appended unless the list holds it already.
AddSpecialMarker(special_markers, marker) ==
    IF \E i \in 1..Len(special_markers) : special_markers[i] = marker
    THEN special_markers
    ELSE Append(special_markers, marker)

\* Package.calculate_volume_weight with the divisor of another carrier.
CalculateVolumeWeight_Div6000(package) ==
    (package.length * package.width * package.height * (Unit \div 1000))
        \div (6000 \div 1000)

\* Package.calculate_volume_weight: (length * width * height) / 5000, the
\* thousands cancelled against Unit before the product is formed.
CalculateVolumeWeight(package) ==
    (package.length * package.width * package.height * (Unit \div 1000))
        \div (5000 \div 1000)

(***************************************************************************)
(* MB: src/my_backed2/src/app.py, PackageManager and its cost calculation. *)
(***************************************************************************)
\* What mbResp holds before a route has served a request; a response keeps
\* these fields, the ones its route does not return as they are here.
NoMBResp ==
    [op |-> "none", role |-> None, code |-> 0, customer_id |-> None, month |-> 0,
     shipments |-> {}, shipment_count |-> 0, total_amount |-> 0, results |-> {}]

\* class ServiceType(Enum): its members
ServiceType == {"STANDARD", "EXPRESS", "OVERNIGHT", "INTERNATIONAL"}

\* Values of the service_type argument: the value of each member (standard
\* 標準配送, express 快速配送, overnight 隔夜配送, international 國際配送),
\* a text that is no member's value, or None.
ServiceTypeField == {"standard", "express", "overnight", "international",
                     "drone", None}

\* ServiceType(text) raises ValueError on a text that is no member's value.
ServiceTypeRaises(text) ==
    text \notin {"standard", "express", "overnight", "international"}

\* ServiceType(text)
ServiceTypeOf(text) ==
    CASE text = "standard"      -> "STANDARD"
      [] text = "express"       -> "EXPRESS"
      [] text = "overnight"     -> "OVERNIGHT"
      [] text = "international" -> "INTERNATIONAL"

\* PricingRule.__init__: no additional fees, distance_rate 2.0.
PricingRule(base_rate) ==
    [base_rate |-> base_rate, additional_fees |-> <<>>, distance_rate |-> 2]

\* PackageManager._initialize_pricing_rules: STANDARD 5.0, EXPRESS 8.0,
\* OVERNIGHT 12.0; no rule for INTERNATIONAL.
MBInitialPricingRules ==
    [t \in {"STANDARD", "EXPRESS", "OVERNIGHT"} |->
        CASE t = "STANDARD"  -> PricingRule(5)
          [] t = "EXPRESS"   -> PricingRule(8)
          [] t = "OVERNIGHT" -> PricingRule(12)]

\* Package.__init__: the fields the cost calculation reads.
MBNewPackage ==
    [weight |-> 0, length |-> 0, width |-> 0, height |-> 0, distance |-> 0,
     service_type |-> "STANDARD", special_markers |-> <<>>]

\* What a call returns when it is no cost calculation, and the breakdown
\* calculate_cost returns for a tracking number that is not stored
\* ({"error": ..., "total": 0.0}).
NoBreakdown ==
    [error |-> TRUE, base_cost |-> 0, weight_cost |-> 0, distance_cost |-> 0,
     charge_weight |-> 0, volume_weight |-> 0, actual_weight |-> 0,
     distance |-> 0, total |-> 0]

\* calculate_cost that always prices with the STANDARD rule.
MBRuleFor_AlwaysStandard(pricing_rules, service_type) == pricing_rules["STANDARD"]

\* self.pricing_rules.get(pkg.service_type, self.pricing_rules[ServiceType.STANDARD])
MBRuleFor(pricing_rules, service_type) ==
    IF service_type \in DOMAIN pricing_rules THEN pricing_rules[service_type]
    ELSE pricing_rules["STANDARD"]

\* calculate_cost that charges the base fee on the first call only.
CalculateCost_BaseFeeOnce(packages, pricing_rules, tracking_number) ==
    IF ~HasPackage(packages, tracking_number) THEN NoBreakdown
    ELSE LET pkg == packages[tracking_number]
             rule == MBRuleFor(pricing_rules, pkg.service_type)
             vol_weight == CalculateVolumeWeight(pkg)
             charge_weight == Max(pkg.weight, vol_weight)
             weight_cost == charge_weight * rule.base_rate
             dist_cost == pkg.distance * rule.distance_rate
             base_cost == IF mbRet.op = "calculate_cost" THEN 0 ELSE 50 * Unit
             total == base_cost + weight_cost + dist_cost
         IN  [error |-> FALSE,
              base_cost |-> Round2(base_cost),
              weight_cost |-> Round2(weight_cost),
              distance_cost |-> Round2(dist_cost),
              charge_weight |-> Round2(charge_weight),
              volume_weight |-> Round2(vol_weight),
              actual_weight |-> pkg.weight,
              distance |-> pkg.distance,
              total |-> Round2(total)]

\* PackageManager.calculate_cost: the dict returned.
CalculateCost(packages, pricing_rules, tracking_number) ==
    IF ~HasPackage(packages, tracking_number) THEN NoBreakdown
    ELSE LET pkg == packages[tracking_number]
             rule == MBRuleFor(pricing_rules, pkg.service_type)
             vol_weight == CalculateVolumeWeight(pkg)
             charge_weight == Max(pkg.weight, vol_weight)
             weight_cost == charge_weight * rule.base_rate
             dist_cost == pkg.distance * rule.distance_rate
             base_cost == 50 * Unit
             total == base_cost + weight_cost + dist_cost
         IN  [error |-> FALSE,
              base_cost |-> Round2(base_cost),
              weight_cost |-> Round2(weight_cost),
              distance_cost |-> Round2(dist_cost),
              charge_weight |-> Round2(charge_weight),
              volume_weight |-> Round2(vol_weight),
              actual_weight |-> pkg.weight,
              distance |-> pkg.distance,
              total |-> Round2(total)]

\* PackageManager.create_package: stored under the new tracking number.
MBCreatePackage(tracking_number) ==
    /\ mbPackages' = DictSet(mbPackages, tracking_number, MBNewPackage)
    /\ mbRet' = [op |-> "create_package", tracking |-> tracking_number,
                 ok |-> TRUE, repeat |-> FALSE, result |-> NoBreakdown]
    /\ UNCHANGED <<mbRules, mbapivars, p9vars, p9cvars, p8vars, p8cvars, lsvars>>

\* Arguments of update_package_attributes: weights 0.5 kg and 2.5 kg, the
\* three dimensions, distances 0 and 100 km.
MBWeights == {Unit \div 2, 2 * Unit + Unit \div 2}
MBDimensions == {<<30, 20, 10>>, <<100, 50, 50>>, <<11, 11, 11>>}
MBDistances == {0, 100 * Unit}

\* PackageManager.update_package_attributes
MBUpdatePackageAttributes(tracking_number, weight, dims, distance, service_type) ==
    /\ mbPackages' =
          IF ~HasPackage(mbPackages, tracking_number) THEN mbPackages
          ELSE [mbPackages EXCEPT ![tracking_number] =
                   [@ EXCEPT !.weight = weight,
                             !.length = dims[1],
                             !.width = dims[2],
                             !.height = dims[3],
                             !.distance = distance,
                             !.service_type =
                                 IF Falsy(service_type) \/ ServiceTypeRaises(service_type)
                                 THEN @ ELSE ServiceTypeOf(service_type)]]
    /\ mbRet' = [op |-> "update_package_attributes", tracking |-> tracking_number,
                 ok |-> HasPackage(mbPackages, tracking_number),
                 repeat |-> FALSE, result |-> NoBreakdown]
    /\ UNCHANGED <<mbRules, mbapivars, p9vars, p9cvars, p8vars, p8cvars, lsvars>>

\* Package.add_special_marker on a stored package.
MBAddSpecialMarker(tracking_number, marker) ==
    /\ HasPackage(mbPackages, tracking_number)
    /\ mbPackages' = [mbPackages EXCEPT ![tracking_number].special_markers =
                         AddSpecialMarker(@, marker)]
    /\ mbRet' = [op |-> "add_special_marker", tracking |-> tracking_number,
                 ok |-> TRUE, repeat |-> FALSE, result |-> NoBreakdown]
    /\ UNCHANGED <<mbRules, mbapivars, p9vars, p9cvars, p8vars, p8cvars, lsvars>>

\* PackageManager.calculate_cost; repeat tells that the call before it was a
\* calculate_cost on the same tracking number.
MBCalculateCost(tracking_number) ==
    /\ mbRet' = [op |-> "calculate_cost", tracking |-> tracking_number,
                 ok |-> HasPackage(mbPackages, tracking_number),
                 repeat |-> (mbRet.op = "calculate_cost"
                             /\ mbRet.tracking = tracking_number),
                 result |-> CalculateCost(mbPackages, mbRules, tracking_number)]
    /\ UNCHANGED <<mbPackages, mbRules, mbapivars, p9vars, p9cvars, p8vars, p8cvars, lsvars>>

\* get_tracking_history that lists the latest event first.
GetTrackingHistory_NewestFirst(events, tracking_number) ==
    LET list == DictGetList(events, tracking_number) IN
    [i \in 1..Len(list) |->
        [status |-> PackageStatusValue(list[Len(list) + 1 - i].status),
         location |-> list[Len(list) + 1 - i].location,
         notes |-> list[Len(list) + 1 - i].notes]]

\* get_tracking_history that answers an unknown number with a placeholder.
GetTrackingHistory_Placeholder(events, tracking_number) ==
    LET list == DictGetList(events, tracking_number) IN
    IF list = <<>>
    THEN <<[status |-> "registered", location |-> "", notes |-> ""]>>
    ELSE [i \in 1..Len(list) |->
             [status |-> PackageStatusValue(list[i].status),
              location |-> list[i].location,
              notes |-> list[i].notes]]

\* TrackingManager.get_tracking_history: one dict per event of
\* tracking_events.get(tracking_number, []), in the order of that list.
GetTrackingHistory(events, tracking_number) ==
    LET list == DictGetList(events, tracking_number) IN
    [i \in 1..Len(list) |->
        [status |-> PackageStatusValue(list[i].status),
         location |-> list[i].location,
         notes |-> list[i].notes]]

(***************************************************************************)
(* LS: src/Logistics_system.py, the cost calculation of PackageManager.    *)
(***************************************************************************)
\* SpecialMarker.<member>.value (fragile 易碎品, dangerous 危險品)
MarkerValue(marker) ==
    CASE marker = "FRAGILE"   -> "fragile"
      [] marker = "DANGEROUS" -> "dangerous"

\* PackageManager._initialize_pricing_rules: STANDARD 5.0, EXPRESS 8.0,
\* OVERNIGHT 12.0, INTERNATIONAL 15.0, each rule without additional fees.
LSInitialPricingRules ==
    [t \in ServiceType |->
        [base_rate |-> CASE t = "STANDARD"      -> 5
                         [] t = "EXPRESS"       -> 8
                         [] t = "OVERNIGHT"     -> 12
                         [] t = "INTERNATIONAL" -> 15,
         additional_fees |-> <<>>]]

\* The loop of calculate_shipping_cost over package.special_markers: the fee
\* of each entry of the list whose value has one in additional_fees.
RECURSIVE AdditionalCost(_, _)
AdditionalCost(special_markers, additional_fees) ==
    IF special_markers = <<>> THEN 0
    ELSE (IF MarkerValue(Head(special_markers)) \in DOMAIN additional_fees
          THEN additional_fees[MarkerValue(Head(special_markers))] ELSE 0)
         + AdditionalCost(Tail(special_markers), additional_fees)

\* PackageManager.calculate_shipping_cost on a stored package: the float
\* returned.
CalculateShippingCost(packages, pricing_rules, tracking_number) ==
    LET package == packages[tracking_number]
        pricing_rule == pricing_rules[package.service_type]
        chargeable_weight == Max(package.weight, CalculateVolumeWeight(package))
        base_cost == chargeable_weight * pricing_rule.base_rate
    IN  base_cost + AdditionalCost(package.special_markers,
                                   pricing_rule.additional_fees)

\* PackageManager.update_package_attributes: the file is saved when the
\* package was found.
LSUpdatePackageAttributes(tracking_number, weight, dims) ==
    /\ lsPackages' =
          IF ~HasPackage(lsPackages, tracking_number) THEN lsPackages
          ELSE [lsPackages EXCEPT ![tracking_number] =
                   [@ EXCEPT !.weight = weight, !.length = dims[1],
                             !.width = dims[2], !.height = dims[3]]]
    /\ lsRet' = [op |-> "update_package_attributes", tracking |-> tracking_number,
                 ok |-> HasPackage(lsPackages, tracking_number), cost |-> 0, arg |-> None]
    /\ lsFile' = IF HasPackage(lsPackages, tracking_number)
                 THEN SaveData(lsPackages') ELSE lsFile
    /\ UNCHANGED <<lsEvents, lsbillvars, mbvars, p9vars, p9cvars, p8vars, p8cvars>>

\* PackageManager.add_special_marker
LSAddSpecialMarker(tracking_number, marker) ==
    /\ lsPackages' =
          IF ~HasPackage(lsPackages, tracking_number) THEN lsPackages
          ELSE [lsPackages EXCEPT ![tracking_number].special_markers =
                   AddSpecialMarker(@, marker)]
    /\ lsRet' = [op |-> "add_special_marker", tracking |-> tracking_number,
                 ok |-> HasPackage(lsPackages, tracking_number), cost |-> 0,
                 arg |-> marker]
    /\ UNCHANGED <<lsEvents, lsFile, lsbillvars, mbvars, p9vars, p9cvars, p8vars, p8cvars>>

\* PackageManager.calculate_shipping_cost; None (ok FALSE) for a tracking
\* number that is not stored or a tier without a rule.
LSCalculateShippingCost(tracking_number) ==
    /\ lsRet' =
          IF /\ HasPackage(lsPackages, tracking_number)
             /\ lsPackages[tracking_number].service_type \in DOMAIN LSInitialPricingRules
          THEN [op |-> "calculate_shipping_cost", tracking |-> tracking_number,
                ok |-> TRUE,
                cost |-> CalculateShippingCost(lsPackages, LSInitialPricingRules,
                                               tracking_number),
                arg |-> None]
          ELSE [op |-> "calculate_shipping_cost", tracking |-> tracking_number,
                ok |-> FALSE, cost |-> 0, arg |-> None]
    /\ UNCHANGED <<lsPackages, lsEvents, lsFile, lsbillvars, mbvars, p9vars, p9cvars,
                   p8vars, p8cvars>>

(***************************************************************************)
(* Initial state: empty tables, no request served, no handler in flight.   *)
(***************************************************************************)
Procs == {1, 2}

NoReq == [role |-> None, tracking |-> None, status |-> None]

InitP9 ==
    /\ p9Parcels = <<>>
    /\ p9Events = <<>>
    /\ p9Resp = NoResp
    /\ p9Req = [p \in Procs |-> NoReq]
    /\ p9Pc = [p \in Procs |-> "idle"]
    /\ p9Start = [parcels |-> <<>>, events |-> <<>>]

InitP8 ==
    /\ p8File = [Parcels |-> <<>>, TrackingEvents |-> <<>>]
    /\ p8Resp = NoResp
    /\ p8Now = 0
    /\ p8Req = [p \in Procs |-> NoReq]
    /\ p8Pc = [p \in Procs |-> "idle"]
    /\ p8Wb = [p \in Procs |-> None]

InitLS ==
    /\ lsPackages = <<>>
    /\ lsEvents = <<>>
    /\ lsRet = [op |-> "none", tracking |-> None, ok |-> FALSE, cost |-> 0, arg |-> None]
    /\ lsFile = <<>>
    /\ lsCustomers = <<>>
    /\ lsBilling = <<>>

InitMB ==
    /\ mbPackages = <<>>
    /\ mbRules = MBInitialPricingRules
    /\ mbRet = [op |-> "none", tracking |-> None, ok |-> FALSE, repeat |-> FALSE,
                result |-> NoBreakdown]
    /\ mbCustomers = {}
    /\ mbInvoices = <<>>
    /\ mbEvents = <<>>
    /\ mbResp = NoMBResp

Init == InitP9 /\ InitP8 /\ InitLS /\ InitMB

(***************************************************************************)
(* P9 served one request at a time.                                        *)
(***************************************************************************)
NextP9 ==
    \/ \E role \in Roles, data \in StatusBodies : P9SetParcelStatus(role, data)
    \/ \E data \in CreateBodies, t \in Issued : P9CreateParcel(data, t)

SpecP9 == Init /\ [][NextP9]_vars

(***************************************************************************)
(* P8 served one request at a time.                                        *)
(***************************************************************************)
NextP8 ==
    \/ \E data \in P8CreateBodies, t \in Issued : P8CreateParcel(data, t)
    \/ \E data \in AmountBodies : P8SetParcelAmount(data)
    \/ \E role \in Roles, data \in StatusBodies : P8SetParcelStatus(role, data)

SpecP8 == Init /\ [][NextP8]_vars

(***************************************************************************)
(* LS: calls on one PackageManager and its TrackingManager.                *)
(***************************************************************************)
NextLS ==
    \/ \E t \in Issued : LSCreatePackage(t)
    \/ \E t \in TRK, status \in PackageStatus, location \in Locations :
          LSRecordEvent(t, status, location)
    \/ \E t \in TRK, location \in Locations : LSStartTracking(t, location)
    \/ \E t \in TRK, location \in Locations, signature \in Signatures :
          LSRecordDelivery(t, location, signature)

SpecLS == Init /\ [][NextLS]_vars

\* C2: after a successful record_event, start_tracking or record_delivery
\* on tracking number t, whatever calls came before, get_current_status(t)
\* reports the value of the package's status field.
C2_CurrentStatusIsPackageStatus ==
    (lsRet.op \in {"record_event", "start_tracking", "record_delivery"} /\ lsRet.ok)
        => /\ HasCurrentStatus(lsEvents, lsRet.tracking)
           /\ GetCurrentStatus(lsEvents, lsRet.tracking).status
                 = PackageStatusValue(GetPackage(lsPackages, lsRet.tracking).status)

\* record_event succeeded on a package that already had two events, the
\* latest with another status.
C2_Witness ==
    /\ lsRet.op = "record_event"
    /\ lsRet.ok
    /\ Len(lsEvents[lsRet.tracking]) >= 3
    /\ lsEvents[lsRet.tracking][2].status # lsEvents[lsRet.tracking][3].status

\* The type of the last event logged for tracking number t; None without one.
LastEventType(events, t) ==
    LET at == {k \in 1..Len(events) : events[k].tracking_number = t} IN
    IF at = {} THEN None
    ELSE events[CHOOSE k \in at : \A m \in at : m <= k].event_type

\* C1: after any sequence of create_parcel, set_parcel_amount and
\* set_parcel_status requests, every parcel's status is the event type of
\* the most recent tracking event of its tracking number.
C1_StatusIsLatestEvent ==
    \A i \in 1..Len(p8File.Parcels) :
        p8File.Parcels[i].status
            = LastEventType(p8File.TrackingEvents, p8File.Parcels[i].tracking_number)

(***************************************************************************)
(* P9 with two set_parcel_status requests on the same parcel in flight.    *)
(* A handler runs in the three store calls it makes: read_parcels (with    *)
(* the checks on what was read), update_parcel_status and                  *)
(* append_tracking_event; each store call is atomic.                       *)
(***************************************************************************)
\* Roles and statuses of the two requests, and the status the parcel is in
\* when they arrive.
ConcStatuses == {"delivered", "lost", "processing", "received"}
ConcStart == {"created", "in_transit", "lost"}

\* The tables after create_parcel and, unless s is created, one status change.
P9TablesAt(s) ==
    [parcels |-> <<[tracking_number |-> "T1", status |-> s]>>,
     events |-> IF s = "created" THEN <<StatusEvent("T1", "created")>>
                ELSE <<StatusEvent("T1", "created"), StatusEvent("T1", s)>>]

InitP9Conc ==
    /\ \E s \in ConcStart :
          /\ p9Parcels = P9TablesAt(s).parcels
          /\ p9Events = P9TablesAt(s).events
          /\ p9Start = P9TablesAt(s)
    /\ p9Resp = NoResp
    /\ p9Req = [p \in Procs |-> NoReq]
    /\ p9Pc = [p \in Procs |-> "idle"]
    /\ InitP8 /\ InitLS /\ InitMB

\* Lines 324-360: the request arrives, the handler reads the parcels and
\* makes its checks on what it read.
P9cRead(p, role, tracking, new_status) ==
    /\ p9Pc[p] = "idle"
    /\ p9Req' = [p9Req EXCEPT ![p] = [role |-> role, tracking |-> tracking,
                                      status |-> new_status]]
    /\ p9Pc' = [p9Pc EXCEPT ![p] =
                  IF P9StatusError(role, tracking, new_status,
                                   P9ReadParcels(p9Parcels)) = "none"
                  THEN "update" ELSE "rejected"]
    /\ UNCHANGED <<mbvars, p9vars, p9Start, p8vars, p8cvars, lsvars>>

\* Lines 362-364: ok = update_parcel_status(tracking, new_status)
P9cUpdate(p) ==
    /\ p9Pc[p] = "update"
    /\ p9Parcels' = P9UpdateParcelStatus(p9Parcels, p9Req[p].tracking, p9Req[p].status)
    /\ p9Pc' = [p9Pc EXCEPT ![p] =
                  IF P9UpdateParcelStatusOk(p9Parcels, p9Req[p].tracking, p9Req[p].status)
                  THEN "append" ELSE "rejected"]
    /\ UNCHANGED <<mbvars, p9Events, p9Resp, p9Req, p9Start, p8vars, p8cvars, lsvars>>

\* Lines 366-379: append_tracking_event({...}) and the 200 response.
P9cAppend(p) ==
    /\ p9Pc[p] = "append"
    /\ p9Events' = P9AppendTrackingEvent(p9Events,
                      StatusEvent(p9Req[p].tracking, p9Req[p].status))
    /\ p9Pc' = [p9Pc EXCEPT ![p] = "done"]
    /\ UNCHANGED <<mbvars, p9Parcels, p9Resp, p9Req, p9Start, p8vars, p8cvars, lsvars>>

NextP9Conc ==
    \/ \E p \in Procs, role \in Roles, new_status \in ConcStatuses :
          P9cRead(p, role, "T1", new_status)
    \/ \E p \in Procs : P9cUpdate(p)
    \/ \E p \in Procs : P9cAppend(p)

SpecP9Conc == InitP9Conc /\ [][NextP9Conc]_vars

\* The tables after request p is served alone, in one piece, on `tables`.
P9After(p, tables) ==
    LET after == P9ServeStatus(p9Req[p].role,
                               [tracking_number |-> p9Req[p].tracking,
                                tracking_no |-> None,
                                status |-> p9Req[p].status],
                               tables.parcels, tables.events)
    IN  [parcels |-> after.parcels, events |-> after.events]

\* C7: when two concurrent set_parcel_status requests on the same tracking
\* number have both ended, the parcel table and the event log are those of
\* one of the two sequential executions of the requests.
C7_Serialisable ==
    (\A p \in Procs : p9Pc[p] \in {"done", "rejected"})
        => [parcels |-> p9Parcels, events |-> p9Events]
              \in {P9After(2, P9After(1, p9Start)), P9After(1, P9After(2, p9Start))}

(***************************************************************************)
(* P8 with two set_parcel_status requests in flight. A handler runs in the *)
(* steps of its two store calls: update_parcel_status loads the workbook,  *)
(* then changes the row and saves; append_tracking_event loads the         *)
(* workbook again, then appends the row and saves.                         *)
(***************************************************************************)
\* Roles and statuses of the two requests.
P8ConcRoles == {"staff", "customer"}
P8ConcStatuses == {"delivered", "lost"}

\* The workbook after create_parcel has been served for T1 and for T2.
P8TwoParcels ==
    [Parcels |-> <<[tracking_number |-> "T1", status |-> "created", amount |-> None],
                   [tracking_number |-> "T2", status |-> "created", amount |-> None]>>,
     TrackingEvents |-> <<P8Event("T1", "created", 0), P8Event("T2", "created", 0)>>]

InitP8Conc ==
    /\ p8File = P8TwoParcels
    /\ p8Resp = NoResp
    /\ p8Now = 0
    /\ p8Req = [p \in Procs |-> NoReq]
    /\ p8Pc = [p \in Procs |-> "idle"]
    /\ p8Wb = [p \in Procs |-> None]
    /\ InitP9 /\ InitLS /\ InitMB

\* Lines 338-357 and update_parcel_status, lines 320-322: the request
\* arrives, passes the checks on its body and the workbook is loaded.
P8cReceive(p, role, tracking, status) ==
    /\ p8Pc[p] = "idle"
    /\ p8Req' = [p8Req EXCEPT ![p] = [role |-> role, tracking |-> tracking,
                                      status |-> status]]
    /\ IF P8StatusError(role, tracking, status) = "none"
       THEN /\ p8Pc' = [p8Pc EXCEPT ![p] = "update_save"]
            /\ p8Wb' = [p8Wb EXCEPT ![p] = p8File]
       ELSE /\ p8Pc' = [p8Pc EXCEPT ![p] = "rejected"]
            /\ p8Wb' = p8Wb
    /\ UNCHANGED <<mbvars, p8vars, p9vars, p9cvars, lsvars>>

\* update_parcel_status, lines 324-333: the row is changed in the loaded
\* workbook and the workbook saved over the file.
P8cUpdateSave(p) ==
    /\ p8Pc[p] = "update_save"
    /\ p8File' = P8UpdateParcelStatus(p8Wb[p], p8Req[p].tracking, p8Req[p].status)
    /\ p8Pc' = [p8Pc EXCEPT ![p] =
                  IF P8UpdateParcelStatusOk(p8Wb[p], p8Req[p].tracking, p8Req[p].status)
                  THEN "append_load" ELSE "rejected"]
    /\ p8Wb' = [p8Wb EXCEPT ![p] = None]
    /\ UNCHANGED <<mbvars, p8Resp, p8Now, p8Req, p9vars, p9cvars, lsvars>>

\* append_tracking_event, lines 341-343: the workbook is loaded again.
P8cAppendLoad(p) ==
    /\ p8Pc[p] = "append_load"
    /\ p8Wb' = [p8Wb EXCEPT ![p] = p8File]
    /\ p8Pc' = [p8Pc EXCEPT ![p] = "append_save"]
    /\ UNCHANGED <<mbvars, p8vars, p8Req, p9vars, p9cvars, lsvars>>

\* append_tracking_event, lines 345-358: the event is appended to the loaded
\* workbook and the workbook saved over the file.
P8cAppendSave(p) ==
    /\ p8Pc[p] = "append_save"
    /\ p8File' = P8AppendTrackingEvent(p8Wb[p],
                    P8Event(p8Req[p].tracking, p8Req[p].status, p8Now))
    /\ p8Pc' = [p8Pc EXCEPT ![p] = "done"]
    /\ p8Wb' = [p8Wb EXCEPT ![p] = None]
    /\ UNCHANGED <<mbvars, p8Resp, p8Now, p8Req, p9vars, p9cvars, lsvars>>

NextP8Conc ==
    \/ \E p \in Procs, role \in P8ConcRoles, t \in TRK, status \in P8ConcStatuses :
          P8cReceive(p, role, t, status)
    \/ \E p \in Procs : P8cUpdateSave(p)
    \/ \E p \in Procs : P8cAppendLoad(p)
    \/ \E p \in Procs : P8cAppendSave(p)

SpecP8Conc == InitP8Conc /\ [][NextP8Conc]_vars

\* C6: the status write and the event append are one step to every
\* observer: in no reachable state has a parcel left the status it was
\* created with while the log holds no status event for it, nor does the log
\* hold a status event for a parcel that is still in that status.
C6_StatusAndEventTogether ==
    \A i \in 1..Len(p8File.Parcels) :
        (p8File.Parcels[i].status # "created")
            <=> (\E k \in 1..Len(p8File.TrackingEvents) :
                    /\ p8File.TrackingEvents[k].tracking_number
                          = p8File.Parcels[i].tracking_number
                    /\ p8File.TrackingEvents[k].event_type # "created")

(***************************************************************************)
(* Claims about P9's set_parcel_status, checked under SpecP9.              *)
(***************************************************************************)
\* The step just taken served a set_parcel_status request.
P9StatusStep == p9Resp'.op = "set_parcel_status"

\* The step's request names a stored parcel and a non-empty new status.
P9OnStoredParcel ==
    /\ P9StatusStep
    /\ ~Falsy(p9Resp'.status)
    /\ FindRow(p9Parcels, p9Resp'.tracking) # 0

\* The status of the parcel the step's request names, before the step.
P9CurrentStatus == p9Parcels[FindRow(p9Parcels, p9Resp'.tracking)].status

\* The step's request asks a driver or a warehouse role for a status outside
\* that role's allow-list.
P9OutsideAllowList ==
    \/ p9Resp'.role = "driver" /\ p9Resp'.status \notin DriverAllowed
    \/ p9Resp'.role = "warehouse" /\ p9Resp'.status \notin WarehouseAllowed

P9TablesUnchanged == p9Parcels' = p9Parcels /\ p9Events' = p9Events

\* C3 as stated: a driver or warehouse request for a status outside the
\* role's allow-list, on a stored parcel in any current status, is answered
\* 403 and changes nothing.
C3_AsClaimed ==
    [][(P9OnStoredParcel /\ P9OutsideAllowList)
         => (p9Resp'.code = 403 /\ P9TablesUnchanged)]_vars

\* C3 amended: such a request always fails and changes no parcel and no
\* event; it is answered 403 unless the parcel is in an abnormal status and
\* the new status is not let through the lock, where the lock answers 400.
C3_RoleGateRejects ==
    [][(P9OnStoredParcel /\ P9OutsideAllowList)
         => /\ P9TablesUnchanged
            /\ IF P9CurrentStatus \in ABNORMAL_STATUSES
                  /\ p9Resp'.status \notin LockExempt
               THEN p9Resp'.error = "locked" /\ p9Resp'.code = 400
               ELSE /\ p9Resp'.code = 403
                    /\ p9Resp'.error = IF p9Resp'.role = "driver"
                                       THEN "driver_forbidden"
                                       ELSE "warehouse_forbidden"]_vars

\* A driver asked for a status outside the allow-list on a stored parcel and
\* was answered 403.
C3_Witness ==
    /\ p9Resp.op = "set_parcel_status"
    /\ p9Resp.role = "driver"
    /\ p9Resp.status \notin DriverAllowed
    /\ p9Resp.error = "driver_forbidden"
    /\ FindRow(p9Parcels, p9Resp.tracking) # 0

\* C4 as stated: on a parcel in an abnormal status, a request by any role
\* but admin for any status but processing fails with the lock's error and
\* changes nothing.
C4_AsClaimed ==
    [][(/\ P9OnStoredParcel
        /\ P9CurrentStatus \in ABNORMAL_STATUSES
        /\ p9Resp'.role # "admin"
        /\ p9Resp'.status # "processing")
         => (p9Resp'.error = "locked" /\ P9TablesUnchanged)]_vars

\* C4 amended: on a parcel in an abnormal status, a request by any role but
\* admin for any status but processing and returned fails and changes
\* nothing: with the lock's error (400) for driver, warehouse and staff, with
\* 403 for customer.
C4_AbnormalLock ==
    [][(/\ P9OnStoredParcel
        /\ P9CurrentStatus \in ABNORMAL_STATUSES
        /\ p9Resp'.role # "admin"
        /\ p9Resp'.status \notin LockExempt)
         => /\ P9TablesUnchanged
            /\ IF p9Resp'.role = "customer"
               THEN p9Resp'.code = 403
               ELSE p9Resp'.error = "locked" /\ p9Resp'.code = 400]_vars

\* A staff request on a lost, damaged or returned parcel was refused by the
\* lock, and the parcel is still in that status.
C4_Witness ==
    /\ p9Resp.op = "set_parcel_status"
    /\ p9Resp.role = "staff"
    /\ p9Resp.error = "locked"
    /\ FindRow(p9Parcels, p9Resp.tracking) # 0
    /\ p9Parcels[FindRow(p9Parcels, p9Resp.tracking)].status \in ABNORMAL_STATUSES

\* C5: every set_parcel_status request made with the customer role is
\* answered 403, whatever tracking number and status it names, and changes
\* no parcel and no tracking event.
C5_CustomerDenied ==
    [][(P9StatusStep /\ p9Resp'.role = "customer")
         => /\ p9Resp'.code = 403
            /\ p9Resp'.error = "customer_forbidden"
            /\ P9TablesUnchanged]_vars

\* A customer asked for a status change of a stored parcel, with a status
\* word, and was answered 403.
C5_Witness ==
    /\ p9Resp.op = "set_parcel_status"
    /\ p9Resp.role = "customer"
    /\ p9Resp.code = 403
    /\ p9Resp.status \in StatusWords
    /\ FindRow(p9Parcels, p9Resp.tracking) # 0

\* C8: a set_parcel_status request that ends in an error (incomplete data,
\* unknown tracking number, permission denied, abnormal-state lock) leaves
\* the parcel table and the tracking-event table as they were.
C8_ErrorChangesNothing ==
    [][(P9StatusStep /\ p9Resp'.error # "none") => P9TablesUnchanged]_vars

\* A request on a stored parcel ended in the lock's error after earlier
\* requests had changed the parcel.
C8_Witness ==
    /\ p9Resp.op = "set_parcel_status"
    /\ p9Resp.error = "locked"
    /\ Len(p9Events) >= 2

\* C9: once a parcel's status is delivered, it stays delivered under every
\* request that is not made by the admin role.
C9_DeliveredIsTerminal ==
    [][\A i \in 1..Len(p9Parcels) :
          (p9Parcels[i].status = "delivered" /\ p9Resp'.role # "admin")
            => p9Parcels'[i].status = "delivered"]_vars

\* C10: a set_parcel_status request by the admin role that names a stored
\* parcel and a new status that is not empty (after strip) succeeds for
\* every current status and every new status: the parcel takes the new
\* status and the event is appended.
C10_AdminBypasses ==
    [][(P9OnStoredParcel /\ p9Resp'.role = "admin")
         => /\ p9Resp'.error = "none"
            /\ p9Resp'.code = 200
            /\ p9Parcels'[FindRow(p9Parcels, p9Resp'.tracking)].status
                  = p9Resp'.status
            /\ p9Events' = Append(p9Events,
                                  StatusEvent(p9Resp'.tracking, p9Resp'.status))]_vars

\* The admin moved a parcel out of an abnormal status to a status the lock
\* refuses every other role.
C10_Witness ==
    /\ p9Resp.op = "set_parcel_status"
    /\ p9Resp.role = "admin"
    /\ p9Resp.error = "none"
    /\ p9Resp.status \notin LockExempt
    /\ Len(p9Events) >= 2
    /\ p9Events[Len(p9Events) - 1].event_type \in ABNORMAL_STATUSES
    /\ p9Events[Len(p9Events) - 1].tracking_number = p9Resp.tracking
    /\ p9Events[Len(p9Events)].event_type = p9Resp.status

(***************************************************************************)
(* MB: calls on one PackageManager.                                        *)
(***************************************************************************)
NextMB ==
    \/ \E t \in Issued : MBCreatePackage(t)
    \/ \E t \in TRK, weight \in MBWeights, dims \in MBDimensions,
          distance \in MBDistances, service_type \in ServiceTypeField :
          MBUpdatePackageAttributes(t, weight, dims, distance, service_type)
    \/ \E t \in TRK, marker \in SpecialMarker : MBAddSpecialMarker(t, marker)
    \/ \E t \in TRK : MBCalculateCost(t)

SpecMB == Init /\ [][NextMB]_vars

\* The package the last calculate_cost call priced.
MBPriced == mbPackages[mbRet.tracking]

\* The last call was a calculate_cost on a stored package.
MBCostReturned == mbRet.op = "calculate_cost" /\ mbRet.ok

\* length * width * height / 5000 of the priced package, in 1/Unit kg.
MBVolumetric ==
    (MBPriced.length * MBPriced.width * MBPriced.height) * (Unit \div 5000)

\* C11: the volumetric weight calculate_cost reports is
\* length * width * height / 5000, the chargeable weight is the larger of the
\* actual and the volumetric weight (both rounded to 2 places in the
\* breakdown), and the weight cost is that chargeable weight times the
\* rule's rate; when the volumetric weight is the larger one, charge_weight
\* equals volume_weight.
C11_ChargeableWeight ==
    MBCostReturned =>
        /\ mbRet.result.volume_weight = Round2(MBVolumetric)
        /\ mbRet.result.charge_weight
              = Round2(IF MBVolumetric > MBPriced.weight
                       THEN MBVolumetric ELSE MBPriced.weight)
        /\ mbRet.result.weight_cost
              = Round2((IF MBVolumetric > MBPriced.weight
                        THEN MBVolumetric ELSE MBPriced.weight)
                       * MBRuleFor(mbRules, MBPriced.service_type).base_rate)
        /\ (MBVolumetric > MBPriced.weight
              => mbRet.result.charge_weight = mbRet.result.volume_weight)

\* A 0.5 kg parcel of 100 x 50 x 50 cm was priced by its volumetric weight.
C11_Witness ==
    /\ MBCostReturned
    /\ MBPriced.weight = Unit \div 2
    /\ mbRet.result.volume_weight = 50 * Unit
    /\ mbRet.result.charge_weight = 50 * Unit

\* C12: the total calculate_cost returns includes the surcharge of the
\* special markers on the parcel: for a parcel that carries the FRAGILE
\* marker (fee 10.0) the total is the total of the same parcel without the
\* marker plus 10.0, as 62.5 becomes 72.5 for the 2.5 kg STANDARD parcel.
C12_TotalIncludesSurcharge ==
    (MBCostReturned /\ MBPriced.special_markers = <<"FRAGILE">>)
        => mbRet.result.total
              = CalculateCost([mbPackages EXCEPT ![mbRet.tracking].special_markers = <<>>],
                              mbRules, mbRet.tracking).total
                + 10 * Unit

\* C15: calculate_cost on a stored parcel returns a full breakdown whatever
\* the parcel's service tier; the weight cost is priced at the STANDARD rate
\* for the tier without a rule (INTERNATIONAL) and at the tier's own rate for
\* STANDARD, EXPRESS and OVERNIGHT.
C15_StandardFallback ==
    MBCostReturned =>
        /\ ~mbRet.result.error
        /\ mbRet.result.weight_cost
              = Round2(Max(MBPriced.weight, CalculateVolumeWeight(MBPriced))
                       * (IF MBPriced.service_type = "INTERNATIONAL"
                          THEN mbRules["STANDARD"].base_rate
                          ELSE mbRules[MBPriced.service_type].base_rate))

\* An INTERNATIONAL parcel with a weight was priced.
C15_Witness ==
    /\ MBCostReturned
    /\ MBPriced.service_type = "INTERNATIONAL"
    /\ mbRet.result.weight_cost > 0
    /\ ~mbRet.result.error

NextLSCost ==
    \/ \E t \in Issued : LSCreatePackage(t)
    \/ \E t \in TRK, weight \in MBWeights, dims \in MBDimensions :
          LSUpdatePackageAttributes(t, weight, dims)
    \/ \E t \in TRK, marker \in SpecialMarker : LSAddSpecialMarker(t, marker)
    \/ \E t \in TRK : LSCalculateShippingCost(t)

SpecLSCost == Init /\ [][NextLSCost]_vars

\* C13: calculate_shipping_cost of a parcel that carries the FRAGILE marker
\* is the weight cost of the parcel plus the marker's fee of 10.0: 22.5 for
\* the 2.5 kg STANDARD parcel whose weight cost is 12.5.
C13_MarkerFeeAdded ==
    (/\ lsRet.op = "calculate_shipping_cost"
     /\ lsRet.ok
     /\ lsPackages[lsRet.tracking].special_markers = <<"FRAGILE">>)
        => lsRet.cost
              = Max(lsPackages[lsRet.tracking].weight,
                    CalculateVolumeWeight(lsPackages[lsRet.tracking]))
                  * LSInitialPricingRules[lsPackages[lsRet.tracking].service_type].base_rate
                + 10 * Unit

\* A fee table with a fee for each marker, as add_additional_fee builds one.
FeesForEveryMarker ==
    [v \in {"fragile", "dangerous"} |->
        IF v = "fragile" THEN 10 * Unit ELSE 20 * Unit]

\* The fees of the markers of a set, each once.
RECURSIVE FeeOfEach(_, _)
FeeOfEach(markers, additional_fees) ==
    IF markers = {} THEN 0
    ELSE LET m == CHOOSE x \in markers : TRUE IN
         (IF MarkerValue(m) \in DOMAIN additional_fees
          THEN additional_fees[MarkerValue(m)] ELSE 0)
         + FeeOfEach(markers \ {m}, additional_fees)

\* C14: after any sequence of add_special_marker calls no package holds a
\* marker twice in its list, and the loop of the cost calculation adds the
\* fee of each marker present once, under the rules' empty fee table and
\* under a table with a fee for every marker.
C14_MarkerOnce ==
    \A t \in DOMAIN lsPackages :
        LET special_markers == lsPackages[t].special_markers IN
        /\ \A i, j \in 1..Len(special_markers) :
              i # j => special_markers[i] # special_markers[j]
        /\ \A fees \in {<<>>, FeesForEveryMarker} :
              AdditionalCost(special_markers, fees)
                 = FeeOfEach({special_markers[i] : i \in 1..Len(special_markers)}, fees)

\* add_special_marker was called with FRAGILE on a package that carried
\* FRAGILE already, and DANGEROUS after it.
C14_Witness ==
    /\ lsRet.op = "add_special_marker"
    /\ lsRet.ok
    /\ lsRet.arg = "FRAGILE"
    /\ lsPackages[lsRet.tracking].special_markers = <<"FRAGILE", "DANGEROUS">>

(***************************************************************************)
(* Claims about TrackingManager's history, checked under SpecLS.           *)
(***************************************************************************)
\* The step just taken was a record_event, start_tracking or record_delivery
\* call on tracking number t that returned True.
LSRecorded(t) ==
    /\ lsRet'.op \in {"record_event", "start_tracking", "record_delivery"}
    /\ lsRet'.ok
    /\ lsRet'.tracking = t

\* C18: get_tracking_history(t) holds one entry per successful record_event
\* on t, in the order recorded: a successful call adds one entry with its
\* status at the end and leaves the entries before it as they were; every
\* other call leaves the history of t as it was.
C18_HistoryInRecordedOrder ==
    [][\A t \in TRK :
          LET before == GetTrackingHistory(lsEvents, t)
              after == GetTrackingHistory(lsEvents', t)
          IN  IF LSRecorded(t)
              THEN /\ Len(after) = Len(before) + 1
                   /\ SubSeq(after, 1, Len(before)) = before
                   /\ after[Len(after)].status = PackageStatusValue(lsRet'.arg)
              ELSE after = before]_vars

\* PICKUP, IN_TRANSIT, OUT_FOR_DELIVERY and DELIVERED were recorded for T1 and
\* the history lists the four in that order.
C18_Witness ==
    /\ Len(GetTrackingHistory(lsEvents, "T1")) = 4
    /\ GetTrackingHistory(lsEvents, "T1")[1].status = "picked_up"
    /\ GetTrackingHistory(lsEvents, "T1")[2].status = "moving"
    /\ GetTrackingHistory(lsEvents, "T1")[3].status = "on_vehicle"
    /\ GetTrackingHistory(lsEvents, "T1")[4].status = "delivered"
    /\ lsRet.op = "record_delivery"

\* C20: for a tracking number that is not stored, and for a stored package
\* without recorded events, get_tracking_history returns the empty list and
\* get_current_status returns None.
C20_NoEventsNoStatus ==
    \A t \in TRK :
        (~HasPackage(lsPackages, t) \/ DictGetList(lsEvents, t) = <<>>)
            => /\ GetTrackingHistory(lsEvents, t) = <<>>
               /\ ~HasCurrentStatus(lsEvents, t)

\* T1 has just been created and has no event, T2 is not stored, and a
\* record_event on T2 has been refused.
C20_Witness ==
    /\ HasPackage(lsPackages, "T1")
    /\ GetTrackingHistory(lsEvents, "T1") = <<>>
    /\ ~HasPackage(lsPackages, "T2")
    /\ lsRet.op = "record_event"
    /\ lsRet.tracking = "T2"
    /\ ~lsRet.ok

(***************************************************************************)
(* P8: the history of a parcel, with the clock advancing between requests. *)
(***************************************************************************)
\* Bodies of the status requests made here.
HistStatusBodies ==
    [tracking_number : TRK, tracking_no : {None}, status : {"delivered", "lost"}]

NextP8Hist ==
    \/ \E t \in Issued : P8CreateParcel([recipient_name |-> "R"], t)
    \/ P8SetParcelAmount([tracking_number |-> "T1", tracking_no |-> None,
                          amount |-> "5"])
    \/ \E data \in HistStatusBodies : P8SetParcelStatus("staff", data)
    \/ P8Tick

SpecP8Hist == Init /\ [][NextP8Hist]_vars

\* seq, last element first.
Reverse(seq) == [i \in 1..Len(seq) |-> seq[Len(seq) + 1 - i]]

\* C17: read_tracking_events returns all events of the parcel, the one
\* appended later before the one appended earlier, also when two carry the
\* same timestamp: the result is the parcel's rows in reverse sheet order.
C17_HistoryMostRecentFirst ==
    \A t \in TRK :
        ReadTrackingEvents(p8File, t) = Reverse(RowsOf(p8File.TrackingEvents, t))

(***************************************************************************)
(* Claims about P8's set_parcel_status, checked under SpecP8.              *)
(***************************************************************************)
\* The step just taken served a set_parcel_status request that names a
\* tracking number no row of the Parcels sheet has.
P8OnUnknownParcel ==
    /\ p8Resp'.op = "set_parcel_status"
    /\ ~Falsy(p8Resp'.tracking)
    /\ FindRow(p8File.Parcels, p8Resp'.tracking) = 0

\* C19 as stated: a set_parcel_status request on a tracking number that
\* matches no stored parcel is answered 404, appends no event and changes
\* no parcel.
C19_AsClaimed ==
    [][P8OnUnknownParcel => (p8Resp'.code = 404 /\ p8File' = p8File)]_vars

\* C19 amended: such a request appends no event and changes no parcel; it is
\* answered 404, unless the caller is a customer (403) or the status is empty
\* (400), which the handler checks before it looks the parcel up.
C19_UnknownParcel ==
    [][P8OnUnknownParcel
         => /\ p8File' = p8File
            /\ p8Resp'.code = IF p8Resp'.role = "customer" THEN 403
                              ELSE IF Falsy(p8Resp'.status) THEN 400
                              ELSE 404]_vars

\* A request on T2, which no row has, was answered 404 while the sheet held
\* a parcel and its events.
C19_Witness ==
    /\ p8Resp.op = "set_parcel_status"
    /\ p8Resp.tracking = "T2"
    /\ p8Resp.code = 404
    /\ p8Resp.status = "delivered"
    /\ Len(p8File.Parcels) >= 1
    /\ Len(p8File.TrackingEvents) >= 2

(***************************************************************************)
(* P8: create_parcel with the tracking number the clock gives the request, *)
(* TRK-<date>-<last four digits of the microsecond>: two requests of one   *)
(* day may be given different numbers or the same one.                     *)
(***************************************************************************)
NextP8Create ==
    \/ \E data \in P8CreateBodies, t \in TRK : P8CreateParcel(data, t)
    \/ \E data \in HistStatusBodies : P8SetParcelStatus("staff", data)
    \/ P8Tick

SpecP8Create == Init /\ [][NextP8Create]_vars

\* C21: tracking numbers are unique across the stored parcels: after any
\* sequence of create_parcel requests no two rows of the Parcels sheet carry
\* the same tracking number.
C21_TrackingNumbersUnique ==
    \A i, j \in 1..Len(p8File.Parcels) :
        i # j => p8File.Parcels[i].tracking_number # p8File.Parcels[j].tracking_number

(***************************************************************************)
(* Claims about P8's event log, checked under SpecP8Hist.                  *)
(***************************************************************************)
\* seq without its k-th element.
Without(seq, k) == SubSeq(seq, 1, k - 1) \o SubSeq(seq, k + 1, Len(seq))

\* C22: the tracking-event log is append-only: every request leaves the rows
\* the TrackingEvents sheet held as they were, in the order they had, and puts
\* the rows it adds behind them; in every parcel's history (the result of
\* read_tracking_events) the events listed before the request are still
\* listed, unchanged and in the same relative order.
C22_LogAppendOnly ==
    [][/\ Len(p8File'.TrackingEvents) >= Len(p8File.TrackingEvents)
       /\ SubSeq(p8File'.TrackingEvents, 1, Len(p8File.TrackingEvents))
             = p8File.TrackingEvents
       /\ \A t \in TRK :
             LET before == ReadTrackingEvents(p8File, t)
                 after == ReadTrackingEvents(p8File', t)
             IN  \/ after = before
                 \/ \E k \in 1..Len(after) : Without(after, k) = before]_vars

\* A status change was logged for T1 a second after the parcel was created
\* and paid for: the sheet holds the three events in the order they came.
C22_Witness ==
    /\ p8Resp.op = "set_parcel_status"
    /\ p8Resp.code = 200
    /\ p8File.TrackingEvents
          = <<P8Event("T1", "created", 0), P8Event("T1", "paid", 0),
              P8Event("T1", p8Resp.status, 1)>>

(***************************************************************************)
(* Claims about two requests in flight on P8, checked under SpecP8Conc.    *)
(***************************************************************************)
\* C23: status changes on different tracking numbers are independent: when
\* two concurrent set_parcel_status requests on two different stored parcels
\* have both been answered 200, each parcel has the status its request set
\* and the log holds the event of each request.
C23_IndependentParcels ==
    (/\ \A p \in Procs : p8Pc[p] = "done"
     /\ p8Req[1].tracking # p8Req[2].tracking)
        => \A p \in Procs :
              /\ p8File.Parcels[FindRow(p8File.Parcels, p8Req[p].tracking)].status
                    = p8Req[p].status
              /\ \E k \in 1..Len(p8File.TrackingEvents) :
                    /\ p8File.TrackingEvents[k].tracking_number = p8Req[p].tracking
                    /\ p8File.TrackingEvents[k].event_type = p8Req[p].status

(***************************************************************************)
(* MB: the routes of src/my_backed2/src/app.py. The caller's role is the   *)
(* current_role field of the request body. A date is the integer yyyymmdd, *)
(* which orders as the text %Y-%m-%d does; a date field that is missing    *)
(* is 0.                                                                   *)
(***************************************************************************)
\* Values of the current_role field: the three roles of the hierarchy, a
\* role that is not in it, or no field.
RoleField == {"customer", "staff", "admin", "driver", None}

\* data.get('current_role', 'customer')
CurrentRole(field) == IF field = None THEN "customer" ELSE field

\* role_hierarchy.get(role, default)
RoleLevel(role, default) ==
    CASE role = "customer" -> 0
      [] role = "staff"    -> 1
      [] role = "admin"    -> 2
      [] OTHER             -> default

\* check_permission that gives a role outside the hierarchy the top level.
CheckPermission_UnknownOnTop(required_role, field) ==
    ~(RoleLevel(CurrentRole(field), 2) < RoleLevel(required_role, 2))

\* check_permission(required_role): has_perm, for a body whose current_role
\* field is `field`.
CheckPermission(required_role, field) ==
    ~(RoleLevel(CurrentRole(field), 0) < RoleLevel(required_role, 2))

\* Senders, and the days on which requests are served.
Senders == {"alice", "bob"}
Days == {20251130, 20251201}

\* datetime.strftime("%Y-%m"): the month yyyymm of a date.
MonthOf(date) == date \div 100

\* Package.__init__ for a sender, on the day `today`: the fields of
\* MBNewPackage and the ones the report, the search and record_event use.
MBPackage(sender_id, today) ==
    [weight |-> 0, length |-> 0, width |-> 0, height |-> 0, distance |-> 0,
     service_type |-> "STANDARD", special_markers |-> <<>>,
     sender_id |-> sender_id, created_at |-> today, status |-> "CREATED",
     location |-> ""]

\* POST /api/parcels: gated at staff; data['sender_id'] of a body without the
\* field raises KeyError (400). The body carries weight and distance, so
\* update_package_attributes is called, with length, width and height 0.
MBApiCreateParcel(field, sender_id, weight, distance, tracking_number, today) ==
    /\ LET code == IF ~CheckPermission("staff", field) THEN 403
                   ELSE IF sender_id = None THEN 400
                   ELSE 200
       IN /\ mbPackages' =
                IF code = 200
                THEN DictSet(mbPackages, tracking_number,
                             [MBPackage(sender_id, today) EXCEPT
                                 !.weight = weight, !.distance = distance])
                ELSE mbPackages
          /\ mbResp' = [NoMBResp EXCEPT !.op = "create_parcel", !.role = field,
                                        !.code = code]
    /\ UNCHANGED <<mbRules, mbRet, mbCustomers, mbInvoices, mbEvents,
                   p9vars, p9cvars, p8vars, p8cvars, lsvars>>

\* total_amount += cost, over the packages of a set of tracking numbers.
RECURSIVE TotalOf(_, _, _)
TotalOf(packages, pricing_rules, listed) ==
    IF listed = {} THEN 0
    ELSE LET t == CHOOSE x \in listed : TRUE IN
         CalculateCost(packages, pricing_rules, t).total
            + TotalOf(packages, pricing_rules, listed \ {t})

\* generate_monthly_report that filters by sender only.
GenerateMonthlyReport_AnyMonth(packages, pricing_rules, customer_id, month_str) ==
    LET listed == {t \in DOMAIN packages : packages[t].sender_id = customer_id}
    IN  [shipments |-> {[tracking_number |-> t,
                         cost |-> CalculateCost(packages, pricing_rules, t).total] :
                           t \in listed},
         shipment_count |-> Cardinality(listed),
         total_amount |-> Round2(TotalOf(packages, pricing_rules, listed))]

\* BillingManager.generate_monthly_report: the shipment list (kept as the set
\* of its entries, one per key of the dict), its length and the rounded sum.
GenerateMonthlyReport(packages, pricing_rules, customer_id, month_str) ==
    LET listed == {t \in DOMAIN packages :
                      /\ packages[t].sender_id = customer_id
                      /\ MonthOf(packages[t].created_at) = month_str}
    IN  [shipments |-> {[tracking_number |-> t,
                         cost |-> CalculateCost(packages, pricing_rules, t).total] :
                           t \in listed},
         shipment_count |-> Cardinality(listed),
         total_amount |-> Round2(TotalOf(packages, pricing_rules, listed))]

\* POST /api/billing/monthly-report: gated at staff.
MBApiMonthlyReport(field, customer_id, month_str) ==
    /\ LET report == GenerateMonthlyReport(mbPackages, mbRules, customer_id, month_str)
       IN mbResp' =
             IF ~CheckPermission("staff", field)
             THEN [NoMBResp EXCEPT !.op = "monthly_report", !.role = field,
                                   !.code = 403, !.customer_id = customer_id,
                                   !.month = month_str]
             ELSE [NoMBResp EXCEPT !.op = "monthly_report", !.role = field,
                                   !.code = 200, !.customer_id = customer_id,
                                   !.month = month_str,
                                   !.shipments = report.shipments,
                                   !.shipment_count = report.shipment_count,
                                   !.total_amount = report.total_amount]
    /\ UNCHANGED <<mbPackages, mbRules, mbRet, mbCustomers, mbInvoices, mbEvents,
                   p9vars, p9cvars, p8vars, p8cvars, lsvars>>


\* PackageManager.search_packages: the to_dict of every package that passes
\* the filters of the criteria that are given (truthy); the requests made
\* here give no location and no status.
SearchPackages(packages, criteria) ==
    {[tracking_number |-> t, sender_id |-> packages[t].sender_id] :
        t \in {x \in DOMAIN packages :
                 /\ Falsy(criteria.sender_id)
                       \/ packages[x].sender_id = criteria.sender_id
                 /\ criteria.date_from = 0
                       \/ ~(packages[x].created_at < criteria.date_from)
                 /\ criteria.date_to = 0
                       \/ ~(packages[x].created_at > criteria.date_to)}}

\* POST /api/parcels/search: not gated; for the customer role the sender_id
\* of the criteria is data.get('customer_id').
MBApiSearchParcels(field, sender_id, customer_id, date_from, date_to) ==
    /\ LET criteria == [sender_id |-> IF CurrentRole(field) = "customer"
                                      THEN customer_id ELSE sender_id,
                        date_from |-> date_from, date_to |-> date_to]
       IN mbResp' = [NoMBResp EXCEPT !.op = "search_parcels", !.role = field,
                                     !.code = 200, !.customer_id = customer_id,
                                     !.results = SearchPackages(mbPackages, criteria)]
    /\ UNCHANGED <<mbPackages, mbRules, mbRet, mbCustomers, mbInvoices, mbEvents,
                   p9vars, p9cvars, p8vars, p8cvars, lsvars>>

(***************************************************************************)
(* MB: parcels created by staff, reports and searches.                     *)
(***************************************************************************)
NextMBApi ==
    \/ \E sender_id \in Senders, weight \in MBWeights, t \in TRK, today \in Days :
          MBApiCreateParcel("staff", sender_id, weight, 0, t, today)
    \/ \E field \in {"staff", "customer"}, customer_id \in Senders \cup {"carol"},
          month_str \in {202511, 202512} :
          MBApiMonthlyReport(field, customer_id, month_str)
    \/ \E field \in {"customer", "staff", None}, sender_id \in {None, "alice"},
          customer_id \in {None, "alice", "bob"}, date_from \in {0, 20251201} :
          MBApiSearchParcels(field, sender_id, customer_id, date_from, 0)

SpecMBApi == Init /\ [][NextMBApi]_vars

\* The tracking numbers of the stored parcels of a sender created in a month.
ParcelsOf(customer_id, month_str) ==
    {t \in DOMAIN mbPackages :
        /\ mbPackages[t].sender_id = customer_id
        /\ mbPackages[t].created_at \div 100 = month_str}

\* C24: a monthly report lists exactly the parcels whose sender is the
\* customer and whose creation month is the month asked for, each with its
\* calculate_cost total; shipment_count is the number of listed shipments,
\* total_amount the sum of their totals, and the request changes no parcel.
C24_MonthlyReport ==
    [][(mbResp'.op = "monthly_report" /\ mbResp'.code = 200)
         => LET listed == ParcelsOf(mbResp'.customer_id, mbResp'.month) IN
            /\ {s.tracking_number : s \in mbResp'.shipments} = listed
            /\ \A s \in mbResp'.shipments :
                  s.cost = CalculateCost(mbPackages, mbRules, s.tracking_number).total
            /\ mbResp'.shipment_count = Cardinality(listed)
            /\ mbResp'.shipment_count = Cardinality(mbResp'.shipments)
            /\ mbResp'.total_amount
                  = (IF "T1" \in listed
                     THEN CalculateCost(mbPackages, mbRules, "T1").total ELSE 0)
                  + (IF "T2" \in listed
                     THEN CalculateCost(mbPackages, mbRules, "T2").total ELSE 0)
            /\ mbPackages' = mbPackages]_vars

\* alice's report for December lists one of her two parcels, the other being
\* of November, while bob has none: one shipment of 62.5.
C24_Witness ==
    /\ mbResp.op = "monthly_report"
    /\ mbResp.code = 200
    /\ mbResp.customer_id = "alice"
    /\ mbResp.month = 202512
    /\ DOMAIN mbPackages = {"T1", "T2"}
    /\ mbPackages["T1"].sender_id = "alice"
    /\ mbPackages["T2"].sender_id = "alice"
    /\ mbPackages["T1"].created_at = 20251130
    /\ mbPackages["T2"].created_at = 20251201
    /\ mbResp.shipment_count = 1
    /\ mbResp.total_amount = 62 * Unit + Unit \div 2

\* C25: a search made with the customer role returns only parcels whose
\* sender is the customer_id of the request, whatever fields the request
\* gives or leaves out.
C25_CustomerSeesOwnParcels ==
    (mbResp.op = "search_parcels" /\ CurrentRole(mbResp.role) = "customer")
        => \A r \in mbResp.results : r.sender_id = mbResp.customer_id


(***************************************************************************)
(* MB: the five routes gated at staff, called with every role.             *)
(***************************************************************************)
\* POST /api/customers: gated at staff; data['account'] of a body without
\* the field raises KeyError (400).
MBApiCreateCustomer(field, account) ==
    /\ LET code == IF ~CheckPermission("staff", field) THEN 403
                   ELSE IF account = None THEN 400
                   ELSE 200
       IN /\ mbCustomers' = IF code = 200 THEN mbCustomers \cup {account}
                            ELSE mbCustomers
          /\ mbResp' = [NoMBResp EXCEPT !.op = "create_customer", !.role = field,
                                        !.code = code]
    /\ UNCHANGED <<mbPackages, mbRules, mbRet, mbInvoices, mbEvents,
                   p9vars, p9cvars, p8vars, p8cvars, lsvars>>

\* POST /api/tracking/event: gated at staff; PackageStatus(data['status'])
\* raises ValueError on a text that is no member's value (400), record_event
\* returns False for a tracking number that is not stored (400) and
\* otherwise appends the event and sets the package's status and location.
MBApiAddTrackingEvent(field, tracking_number, status, location) ==
    /\ Len(DictGetList(mbEvents, tracking_number)) < MaxEvents
    /\ LET known == \E m \in PackageStatus : PackageStatusValue(m) = status
           member == CHOOSE m \in PackageStatus : PackageStatusValue(m) = status
           code == IF ~CheckPermission("staff", field) THEN 403
                   ELSE IF ~known THEN 400
                   ELSE IF ~HasPackage(mbPackages, tracking_number) THEN 400
                   ELSE 200
       IN /\ mbEvents' =
                IF code = 200
                THEN DictSet(mbEvents, tracking_number,
                             Append(DictGetList(mbEvents, tracking_number),
                                    TrackingEvent(member, location, "")))
                ELSE mbEvents
          /\ mbPackages' =
                IF code = 200
                THEN [mbPackages EXCEPT ![tracking_number].status = member,
                                        ![tracking_number].location = location]
                ELSE mbPackages
          /\ mbResp' = [NoMBResp EXCEPT !.op = "add_tracking_event",
                                        !.role = field, !.code = code]
    /\ UNCHANGED <<mbRules, mbRet, mbCustomers, mbInvoices,
                   p9vars, p9cvars, p8vars, p8cvars, lsvars>>

\* POST /api/billing/invoice: gated at staff; the invoice is appended.
MBApiCreateInvoice(field, customer_account) ==
    /\ Len(mbInvoices) < MaxInvoices
    /\ LET code == IF ~CheckPermission("staff", field) THEN 403 ELSE 200
       IN /\ mbInvoices' = IF code = 200
                           THEN Append(mbInvoices, [customerAccount |-> customer_account])
                           ELSE mbInvoices
          /\ mbResp' = [NoMBResp EXCEPT !.op = "create_invoice", !.role = field,
                                        !.code = code]
    /\ UNCHANGED <<mbPackages, mbRules, mbRet, mbCustomers, mbEvents,
                   p9vars, p9cvars, p8vars, p8cvars, lsvars>>

NextMBGate ==
    \/ \E field \in RoleField, account \in {"alice", None} :
          MBApiCreateCustomer(field, account)
    \/ \E field \in RoleField, sender_id \in {"alice", None}, t \in Issued :
          MBApiCreateParcel(field, sender_id, 2 * Unit, 0, t, 20251201)
    \/ \E field \in RoleField, t \in TRK, status \in {"picked_up", "delivered", "archived"} :
          MBApiAddTrackingEvent(field, t, status, "Taipei")
    \/ \E field \in RoleField : MBApiMonthlyReport(field, "alice", 202512)
    \/ \E field \in RoleField : MBApiCreateInvoice(field, "alice")

SpecMBGate == Init /\ [][NextMBGate]_vars

\* C26: role levels are ordered customer < staff < admin and access is
\* granted exactly when the caller's level is at least the required one;
\* each of the five routes gated at staff (create customer, create parcel,
\* add tracking event, monthly report, invoice) answers 403 and changes
\* nothing when the current_role field is customer, missing or no role of the
\* hierarchy, and does not answer 403 when it is staff or admin.
C26_RoleGate ==
    [][/\ RoleLevel("customer", 0) < RoleLevel("staff", 0)
       /\ RoleLevel("staff", 0) < RoleLevel("admin", 0)
       /\ \A required \in {"customer", "staff", "admin"}, field \in RoleField :
             CheckPermission(required, field)
                <=> (IF field \in {"customer", "staff", "admin"}
                     THEN RoleLevel(field, 0) ELSE 0) >= RoleLevel(required, 0)
       /\ mbResp'.op \in {"create_customer", "create_parcel", "add_tracking_event",
                          "monthly_report", "create_invoice"}
             => /\ (mbResp'.code = 403) <=> (mbResp'.role \notin {"staff", "admin"})
                /\ (mbResp'.code = 403)
                      => /\ mbPackages' = mbPackages
                         /\ mbCustomers' = mbCustomers
                         /\ mbInvoices' = mbInvoices
                         /\ mbEvents' = mbEvents]_vars

\* After staff had created a customer, a parcel, an event and an invoice, a
\* caller with a role outside the hierarchy asked for an event and got 403.
C26_Witness ==
    /\ mbResp.op = "add_tracking_event"
    /\ mbResp.role = "driver"
    /\ mbResp.code = 403
    /\ mbCustomers = {"alice"}
    /\ HasPackage(mbPackages, "T1")
    /\ Len(DictGetList(mbEvents, "T1")) = 1
    /\ Len(mbInvoices) = 1


(***************************************************************************)
(* LS: src/Logistics_system.py, CustomerManager and BillingManager.        *)
(***************************************************************************)
\* class CustomerType(Enum), class BillingPreference(Enum): their members
CustomerType == {"CONTRACT", "NON_CONTRACT", "PREPAID"}
BillingPreference == {"MONTHLY", "COD", "PREPAID"}

\* CustomerManager.create_customer: customer_id is the uuid4 the new customer
\* is given; Customer.__init__ makes it NON_CONTRACT with preference COD.
LSCreateCustomer(customer_id) ==
    /\ lsCustomers' = DictSet(lsCustomers, customer_id,
                              [customer_type |-> "NON_CONTRACT",
                               billing_preference |-> "COD"])
    /\ lsRet' = [op |-> "create_customer", tracking |-> None, ok |-> TRUE,
                 cost |-> 0, arg |-> None]
    /\ UNCHANGED <<lsPackages, lsEvents, lsFile, lsBilling, mbvars, p9vars, p9cvars,
                   p8vars, p8cvars>>

\* CustomerManager.update_customer_type
LSUpdateCustomerType(customer_id, customer_type) ==
    /\ lsCustomers' = IF customer_id \in DOMAIN lsCustomers
                      THEN [lsCustomers EXCEPT ![customer_id].customer_type =
                               customer_type]
                      ELSE lsCustomers
    /\ lsRet' = [op |-> "update_customer_type", tracking |-> None,
                 ok |-> customer_id \in DOMAIN lsCustomers, cost |-> 0, arg |-> None]
    /\ UNCHANGED <<lsPackages, lsEvents, lsFile, lsBilling, mbvars, p9vars, p9cvars,
                   p8vars, p8cvars>>

\* CustomerManager.update_billing_preference
LSUpdateBillingPreference(customer_id, preference) ==
    /\ lsCustomers' = IF customer_id \in DOMAIN lsCustomers
                      THEN [lsCustomers EXCEPT ![customer_id].billing_preference =
                               preference]
                      ELSE lsCustomers
    /\ lsRet' = [op |-> "update_billing_preference", tracking |-> None,
                 ok |-> customer_id \in DOMAIN lsCustomers, cost |-> 0, arg |-> None]
    /\ UNCHANGED <<lsPackages, lsEvents, lsFile, lsBilling, mbvars, p9vars, p9cvars,
                   p8vars, p8cvars>>

\* process_payment that looks at the billing preference first.
PaymentStatus_PreferenceFirst(customer) ==
    IF customer.billing_preference = "COD" THEN "cash_on_delivery"
    ELSE IF customer.customer_type = "PREPAID" THEN "already_paid"
    ELSE "awaiting_payment"

\* process_payment, lines 480-488: the payment_status of the record.
PaymentStatus(customer) ==
    IF customer.customer_type = "PREPAID" THEN "already_paid"
    ELSE IF customer.billing_preference = "COD" THEN "cash_on_delivery"
    ELSE "awaiting_payment"

\* BillingManager.process_payment: None (ok FALSE) without the package, its
\* sender's customer or a cost; otherwise the record is stored under the
\* tracking number and returned (billing_preference as the member, created_at
\* left out).
LSProcessPayment(tracking_number) ==
    /\ LET found == /\ HasPackage(lsPackages, tracking_number)
                    /\ lsPackages[tracking_number].sender_id \in DOMAIN lsCustomers
                    /\ lsPackages[tracking_number].service_type
                          \in DOMAIN LSInitialPricingRules
           customer_id == lsPackages[tracking_number].sender_id
           customer == lsCustomers[customer_id]
           cost == CalculateShippingCost(lsPackages, LSInitialPricingRules,
                                         tracking_number)
       IN IF found
          THEN /\ lsBilling' = DictSet(lsBilling, tracking_number,
                                  [customer_id |-> customer_id,
                                   amount |-> cost,
                                   billing_preference |-> customer.billing_preference,
                                   payment_status |-> PaymentStatus(customer)])
               /\ lsRet' = [op |-> "process_payment", tracking |-> tracking_number,
                            ok |-> TRUE, cost |-> cost,
                            arg |-> PaymentStatus(customer)]
          ELSE /\ lsBilling' = lsBilling
               /\ lsRet' = [op |-> "process_payment", tracking |-> tracking_number,
                            ok |-> FALSE, cost |-> 0, arg |-> None]
    /\ UNCHANGED <<lsPackages, lsEvents, lsFile, lsCustomers, mbvars, p9vars, p9cvars,
                   p8vars, p8cvars>>

NextLSBilling ==
    \/ \E t \in Issued : LSCreatePackage(t)
    \/ \E t \in TRK, weight \in MBWeights, dims \in MBDimensions :
          LSUpdatePackageAttributes(t, weight, dims)
    \/ LSCreateCustomer("C1")
    \/ \E c \in {"C1", "C2"}, customer_type \in CustomerType :
          LSUpdateCustomerType(c, customer_type)
    \/ \E c \in {"C1", "C2"}, preference \in BillingPreference :
          LSUpdateBillingPreference(c, preference)
    \/ \E t \in TRK : LSProcessPayment(t)

SpecLSBilling == Init /\ [][NextLSBilling]_vars

\* C27: the record process_payment returns and stores has payment_status
\* already_paid when the sender's customer type is PREPAID, whatever the
\* billing preference, otherwise cash_on_delivery when the preference is COD,
\* otherwise awaiting_payment; its amount is calculate_shipping_cost of the
\* parcel.
C27_PaymentStatus ==
    (lsRet.op = "process_payment" /\ lsRet.ok)
        => LET customer == lsCustomers[lsPackages[lsRet.tracking].sender_id]
               record == lsBilling[lsRet.tracking]
           IN  /\ record.payment_status = lsRet.arg
               /\ record.amount = lsRet.cost
               /\ customer.customer_type = "PREPAID"
                     => record.payment_status = "already_paid"
               /\ (customer.customer_type # "PREPAID"
                     /\ customer.billing_preference = "COD")
                     => record.payment_status = "cash_on_delivery"
               /\ (customer.customer_type # "PREPAID"
                     /\ customer.billing_preference # "COD")
                     => record.payment_status = "awaiting_payment"
               /\ record.amount
                     = Max(lsPackages[lsRet.tracking].weight,
                           CalculateVolumeWeight(lsPackages[lsRet.tracking]))
                        * LSInitialPricingRules[
                             lsPackages[lsRet.tracking].service_type].base_rate

\* The payment of a 2.5 kg parcel of a PREPAID customer whose preference is
\* COD was processed: already_paid, 12.5.
C27_Witness ==
    /\ lsRet.op = "process_payment"
    /\ lsRet.ok
    /\ lsCustomers["C1"].customer_type = "PREPAID"
    /\ lsCustomers["C1"].billing_preference = "COD"
    /\ lsRet.arg = "already_paid"
    /\ lsRet.cost = 12 * Unit + Unit \div 2


(***************************************************************************)
(* LS: a restart. save_data writes the file and the managers are built     *)
(* anew: PackageManager loads the file, CustomerManager, TrackingManager   *)
(* and BillingManager start empty.                                         *)
(***************************************************************************)
LSRestart ==
    /\ lsFile' = SaveData(lsPackages)
    /\ lsPackages' = LoadData(lsFile')
    /\ lsEvents' = <<>>
    /\ lsCustomers' = <<>>
    /\ lsBilling' = <<>>
    /\ lsRet' = [op |-> "restart", tracking |-> None, ok |-> TRUE, cost |-> 0,
                 arg |-> None]
    /\ UNCHANGED <<mbvars, p9vars, p9cvars, p8vars, p8cvars>>

NextLSRestart ==
    \/ \E t \in Issued : LSCreatePackage(t)
    \/ \E t \in TRK, weight \in MBWeights, dims \in MBDimensions :
          LSUpdatePackageAttributes(t, weight, dims)
    \/ \E t \in TRK, marker \in SpecialMarker : LSAddSpecialMarker(t, marker)
    \/ \E t \in TRK : LSCalculateShippingCost(t)
    \/ LSRestart

SpecLSRestart == Init /\ [][NextLSRestart]_vars

\* C30: the persistence round trip preserves pricing: after save_data and
\* load_data in a new manager every stored package is stored again, and
\* calculate_shipping_cost returns for it what it returned before the
\* restart (as it does when weight, dimensions, service type and special
\* markers are restored).
C30_RestartKeepsCost ==
    [][lsRet'.op = "restart"
         => \A t \in DOMAIN lsPackages :
               /\ HasPackage(lsPackages', t)
               /\ CalculateShippingCost(lsPackages', LSInitialPricingRules, t)
                     = CalculateShippingCost(lsPackages, LSInitialPricingRules, t)]_vars


(***************************************************************************)
(* The statuses a parcel can carry.                                        *)
(***************************************************************************)
\* The status literals that create_parcel and set_parcel_status name
\* (the initial status, the lock list, its exemptions and the two
\* allow-lists).
DefinedStatuses == {"created"} \cup ABNORMAL_STATUSES \cup LockExempt
                       \cup DriverAllowed \cup WarehouseAllowed

\* C28: status values form a closed set: in every reachable state each
\* parcel's status is one of the defined status values, whichever role
\* (staff and admin included) asked for the change.
C28_StatusClosedSet ==
    \A i \in 1..Len(p9Parcels) : p9Parcels[i].status \in DefinedStatuses

(***************************************************************************)
(* The events of the P8 workbook and the parcels they name.                *)
(***************************************************************************)
\* C29: every tracking event in the log names a parcel of the store: no
\* request (set_parcel_amount with an unknown tracking number in
\* particular) appends an event whose tracking number matches no parcel.
\* Rows of the Parcels sheet are never removed, so an event appended for
\* a stored parcel names a stored parcel in every later state as well.
C29_EventsNameStoredParcels ==
    \A k \in 1..Len(p8File.TrackingEvents) :
        FindRow(p8File.Parcels, p8File.TrackingEvents[k].tracking_number) # 0

=============================================================================
